---- MODULE Spec2Model ----
(***************************************************************************)
(* Adaptive Lesson Session Engine (server/controllers/lessonSessionEngine  *)
(* .js) with its planner (lessonPlanner.createPlan) and step content       *)
(* generator (dynamicLessonGenerator.generateContentForStep).              *)
(*                                                                         *)
(* JavaScript values are encoded as follows.  Identifiers, types and       *)
(* option texts are TLA+ strings, with Null standing for null/undefined.   *)
(* Text that the turn splitter cuts (block content, turn text) is a        *)
(* record [t, s]: t = "str" with s the sequence of characters, or          *)
(* t = "null" for null, undefined and every non-string value.  Array       *)
(* positions are 0-based as in the source; Nth(seq, i) reads position i.   *)
(***************************************************************************)
EXTENDS Integers, Sequences, FiniteSets, TLC

Null == "<null>"

\* Largest number of Blocks a session may hold in the model (the source has
\* no limit; a Block with a foreign block_id can make a session loop).
MaxBlocks == 3

JSNull == [t |-> "null", s |-> <<>>]

Str(chars) == [t |-> "str", s |-> chars]

Has(seq, i) == i >= 0 /\ i < Len(seq)

Nth(seq, i) == seq[i + 1]

(***************************************************************************)
(* Turn Splitter                                                           *)
(***************************************************************************)
IsWs(c) == c \in {" ", "\n"}

\* index of the last character of the whitespace run that starts at i
RECURSIVE WsRunEnd(_, _)
WsRunEnd(s, i) ==
  IF i < Len(s) /\ IsWs(s[i + 1]) THEN WsRunEnd(s, i + 1) ELSE i

\* String.prototype.trim
RECURSIVE TrimLeft(_)
TrimLeft(s) ==
  IF s # <<>> /\ IsWs(Head(s)) THEN TrimLeft(Tail(s)) ELSE s

RECURSIVE TrimRight(_)
TrimRight(s) ==
  IF s # <<>> /\ IsWs(s[Len(s)]) THEN TrimRight(SubSeq(s, 1, Len(s) - 1)) ELSE s

Trim(s) == TrimRight(TrimLeft(s))

\* Array.prototype.filter(Boolean) on an array of strings
RECURSIVE FilterNonEmpty(_)
FilterNonEmpty(seqs) ==
  IF seqs = <<>> THEN <<>>
  ELSE IF Head(seqs) = <<>> THEN FilterNonEmpty(Tail(seqs))
       ELSE <<Head(seqs)>> \o FilterNonEmpty(Tail(seqs))

\* content.split(/\n\s*\n/): a separator starts at a newline and runs to the
\* last newline of the whitespace run the newline opens
RECURSIVE SplitParagraphs(_, _, _)
SplitParagraphs(s, i, cur) ==
  IF i > Len(s) THEN <<cur>>
  ELSE IF s[i] = "\n"
       THEN LET e == WsRunEnd(s, i)
                nls == {k \in (i + 1)..e : s[k] = "\n"}
            IN IF nls # {}
               THEN LET last == CHOOSE k \in nls : \A m \in nls : m <= k
                    IN <<cur>> \o SplitParagraphs(s, last + 1, <<>>)
               ELSE SplitParagraphs(s, i + 1, Append(cur, s[i]))
       ELSE SplitParagraphs(s, i + 1, Append(cur, s[i]))

\* p.split(/(?<=[.!?])\s+/): a separator is a whitespace run that follows
\* terminal punctuation
RECURSIVE SplitSentences(_, _, _)
SplitSentences(p, i, cur) ==
  IF i > Len(p) THEN <<cur>>
  ELSE IF IsWs(p[i]) /\ i > 1 /\ p[i - 1] \in {".", "!", "?"}
       THEN <<cur>> \o SplitSentences(p, WsRunEnd(p, i) + 1, <<>>)
       ELSE SplitSentences(p, i + 1, Append(cur, p[i]))

NarrationTurn(text) == [say |-> Str(text), question |-> JSNull, type |-> "narration"]

\* 'Let’s continue.'
ContinueText == <<"L", ".">>

RECURSIVE ParagraphTurns(_)
ParagraphTurns(paragraphs) ==
  LET \* sentences.slice(0, 2).join(' ')
      FirstTwoJoined(sentences) ==
        IF Len(sentences) = 0 THEN <<>>
        ELSE IF Len(sentences) = 1 THEN sentences[1]
             ELSE sentences[1] \o <<" ">> \o sentences[2]
  IN IF paragraphs = <<>> THEN <<>>
     ELSE <<NarrationTurn(FirstTwoJoined(
               FilterNonEmpty(SplitSentences(Head(paragraphs), 1, <<>>))))>>
          \o ParagraphTurns(Tail(paragraphs))

RECURSIVE TrimAll(_)
TrimAll(seqs) ==
  IF seqs = <<>> THEN <<>> ELSE <<Trim(Head(seqs))>> \o TrimAll(Tail(seqs))

SplitContentIntoTurns(content) ==
  IF content.t # "str" \/ content.s = <<>>
  THEN <<NarrationTurn(ContinueText)>>
  ELSE LET paragraphs == FilterNonEmpty(TrimAll(SplitParagraphs(content.s, 1, <<>>)))
           turns == ParagraphTurns(paragraphs)
       IN IF turns = <<>>
          THEN <<NarrationTurn(SubSeq(content.s, 1, IF Len(content.s) < 200 THEN Len(content.s) ELSE 200))>>
          ELSE turns

\* turns.slice(0, 6)
MaxTurns == 6

Slice0(turns, n) == SubSeq(turns, 1, IF Len(turns) < n THEN Len(turns) ELSE n)

\* variant: the Socratic question is pushed at the end of the turns
TurnsOfBlock_pushQuestion(block) ==
  LET baseTurns == SplitContentIntoTurns(block.content)
      withQ == IF Len(block.socratic) > 0
               THEN Append(baseTurns, [say |-> JSNull, question |-> block.socratic[1],
                                       type |-> "socratic"])
               ELSE baseTurns
  IN Slice0(withQ, MaxTurns)

\* the turns _ensureTurnsForBlock memoizes for a (non-null) block
TurnsOfBlock(block) ==
  LET baseTurns == SplitContentIntoTurns(block.content)
      socratic == block.socratic
      \* baseTurns.splice(1, 0, x): insert x at position 1 (or at the end of
      \* a shorter array)
      Splice1(turns, x) ==
        IF Len(turns) = 0 THEN <<x>>
        ELSE <<turns[1]>> \o <<x>> \o SubSeq(turns, 2, Len(turns))
      withQ == IF Len(socratic) > 0
               THEN Splice1(baseTurns, [say |-> JSNull, question |-> socratic[1], type |-> "socratic"])
               ELSE baseTurns
  IN Slice0(withQ, MaxTurns)

(***************************************************************************)
(* Plan Generator (lessonPlanner.createPlan)                               *)
(***************************************************************************)
\* String.prototype.toLowerCase on the strings the model uses
Lower(str) ==
  CASE str = "Choice" -> "choice"
    [] str = "Quiz" -> "quiz"
    [] str = "A" -> "a"
    [] str = "B" -> "b"
    [] str = "X" -> "x"
    [] OTHER -> str

Digits == <<"1", "2", "3", "4", "5", "6", "7", "8", "9">>

\* `step_${n}`
StepId(n) == "step_" \o Digits[n]

\* 'Learn a key concept', `Understand concept ${idx}`, 'Select an exploration path'
DefaultObjective == <<"o", ".">>

\* const total = 8
FallbackTotal == 8

FallbackStep(idx) ==
  LET isChoice == idx % 4 = 0
  IN [id |-> IF isChoice THEN "choice_" \o Digits[idx] ELSE StepId(idx),
      type |-> IF isChoice THEN "choice" ELSE (IF idx % 3 = 0 THEN "quiz" ELSE "narration"),
      objective |-> DefaultObjective,
      minutes |-> IF isChoice THEN 2 ELSE 3,
      options |-> IF isChoice
                  THEN <<[text |-> "Path A", next |-> StepId(idx + 1)],
                         [text |-> "Path B", next |-> StepId(idx + 1)]>>
                  ELSE <<>>]

FallbackPlan == [i \in 1..FallbackTotal |-> FallbackStep(i)]

\* out.gen: "throw" when generateResponse rejects, else "text";
\* out.parsed: what parseAIJSONResponse(raw) returns ("error" when it throws,
\* "object" for a value that is not an array, "nullItem" for an array with
\* a null in it, on which parsed.map throws);
\* out.repaired: what JSON.parse(fixCommonJSONIssues(raw)) returns
\* the inner try block (lines 10-22): the normalized steps, or a throw
planTry(out) ==
  LET \* parsed.map((step, idx) => ({ id: step.id || ..., type: ..., ... }))
      NormalizeStep(step, idx) ==
        [id |-> IF step.id = Null THEN StepId(idx + 1) ELSE step.id,
         type |-> Lower(IF step.type = Null THEN "narration" ELSE step.type),
         objective |-> IF step.objective = <<>> THEN DefaultObjective ELSE step.objective,
         minutes |-> IF step.minutes = 0 THEN 2 ELSE step.minutes,
         options |-> step.options]
  IN IF out.parsed.k = "array"
     THEN [threw |-> FALSE,
           plan |-> [i \in 1..Len(out.parsed.steps) |->
                       NormalizeStep(out.parsed.steps[i], i - 1)]]
     ELSE [threw |-> TRUE, plan |-> <<>>]

\* the inner catch block (lines 23-28): the repaired array as it is, or a
\* throw
planRepair(out) ==
  IF out.repaired.k = "array"
  THEN [threw |-> FALSE, plan |-> out.repaired.steps]
  ELSE [threw |-> TRUE, plan |-> <<>>]

\* variant: the outer catch block rethrows
createPlanOutcome_rethrow(out) ==
  IF out.gen = "throw" THEN [threw |-> TRUE, plan |-> <<>>]
  ELSE IF ~planTry(out).threw THEN planTry(out)
  ELSE planRepair(out)

\* createPlan(topic, userProfile): what the call does (threw: it rejects)
createPlanOutcome(out) ==
  IF out.gen = "throw" THEN [threw |-> FALSE, plan |-> FallbackPlan]
  ELSE IF ~planTry(out).threw THEN planTry(out)
  ELSE IF ~planRepair(out).threw THEN planRepair(out)
  ELSE [threw |-> FALSE, plan |-> FallbackPlan]

\* the plan createPlan resolves to
createPlan(out) == createPlanOutcome(out).plan

\* state.planIndexById[id] ?? dflt
IndexOr(index, id, dflt) == IF id \in DOMAIN index THEN index[id] ELSE dflt

(***************************************************************************)
(* Step Content Generator (dynamicLessonGenerator.generateContentForStep)  *)
(***************************************************************************)
\* JSON null returned by the generation service and parsed as such
NullBlock ==
  [kind |-> "null", block_id |-> Null, type |-> Null, content |-> JSNull,
   socratic |-> <<>>, choices |-> <<>>, error |-> FALSE]

\* 'Choose your next course of action to continue the mission.'
ChoiceContent == <<"c", ".">>

GenericChoices ==
  <<[text |-> "Explore Path A", next_block |-> Null],
    [text |-> "Explore Path B", next_block |-> Null]>>

StepType(step) == Lower(IF step.type = Null THEN "narration" ELSE step.type)

\* the Block of the outer catch block (lines 113-125)
FallbackBlock(step) ==
  [kind |-> "object", block_id |-> step.id, type |-> StepType(step),
   \* `This slide covers: ${step.objective}`
   content |-> Str(<<"T", ":", " ">> \o step.objective), socratic |-> <<>>,
   choices |-> <<>>, error |-> TRUE]

\* variant: there is no branch for image steps, they take the prompt path
generateContentOutcome_imagePrompt(step, out) ==
  [threw |-> FALSE,
   block |-> IF StepType(step) = "choice"
             THEN [kind |-> "object", block_id |-> step.id, type |-> "choice",
                   content |-> Str(ChoiceContent), socratic |-> <<>>,
                   choices |-> IF Len(step.options) > 0
                               THEN [i \in 1..Len(step.options) |->
                                       [text |-> IF step.options[i].text = Null THEN "Choose"
                                                 ELSE step.options[i].text,
                                        next_block |-> step.options[i].next]]
                               ELSE GenericChoices,
                   error |-> FALSE]
             ELSE IF out.kind = "value" THEN out.v
             ELSE FallbackBlock(step)]

\* variant: the outer catch block rethrows
generateContentOutcome_rethrow(step, out) ==
  IF StepType(step) \in {"choice", "image"} \/ out.kind = "value"
  THEN [threw |-> FALSE,
        block |-> IF out.kind = "value" /\ StepType(step) \notin {"choice", "image"}
                  THEN out.v ELSE FallbackBlock(step)]
  ELSE [threw |-> TRUE, block |-> NullBlock]

\* generateContentForStep(step, options): what the call does (threw: it
\* rejects).
\* out.kind: "throw" when generateResponse rejects or neither
\* parseAIJSONResponse nor the repair pass yields a value, "value" with the
\* parsed value out.v otherwise
generateContentOutcome(step, out) ==
  LET type == StepType(step)
  IN [threw |-> FALSE,
      block |->
        IF type = "choice"
        THEN [kind |-> "object", block_id |-> step.id, type |-> "choice",
              content |-> Str(ChoiceContent), socratic |-> <<>>,
              choices |-> IF Len(step.options) > 0
                          THEN [i \in 1..Len(step.options) |->
                                  [text |-> IF step.options[i].text = Null THEN "Choose"
                                            ELSE step.options[i].text,
                                   next_block |-> step.options[i].next]]
                          ELSE GenericChoices,
              error |-> FALSE]
        ELSE IF type = "image"
        THEN [kind |-> "object", block_id |-> step.id, type |-> "image",
              content |-> Str(step.objective), socratic |-> <<>>, choices |-> <<>>,
              error |-> FALSE]
        ELSE IF out.kind = "value" THEN out.v
        ELSE FallbackBlock(step)]

\* the Block generateContentForStep resolves to
generateContentForStep(step, out) == generateContentOutcome(step, out).block

(***************************************************************************)
(* Session State Machine (lessonSessionEngine.js)                          *)
(***************************************************************************)
VARIABLES
  sessions,   \* this.sessions: session key -> SessionState (present keys only)
  now,        \* the reading of Date.now()
  ret,        \* outcome of the last session operation: its payload or its error
  calls,      \* the calls in flight: per caller, the suspended async call
  orphans     \* SessionState objects removed from the store to which a call
              \* in flight still holds a reference

vars == <<sessions, now, ret, calls, orphans>>

Users == {"u1"}

\* variant: the key is built from the missionId alone
sessionKey_missionOnly(userId, missionId) == <<"", missionId>>

\* _sessionKey(userId, missionId), missionId = `dynamic_lesson_${Date.now()}`
sessionKey(userId, missionId) == <<userId, missionId>>

\* lower-cased block type, '' for a missing one
BlockType(block) == IF block.type = Null THEN "" ELSE Lower(block.type)

NoChoice == [text |-> Null, next_block |-> Null]

NoPayload ==
  [has |-> FALSE, blockId |-> Null, blockType |-> Null, block |-> -1, turn |-> -1,
   say |-> JSNull, question |-> JSNull, choicesDefined |-> FALSE, choices |-> <<>>]

\* userResponse of an operation that takes none
NoArg == [kind |-> "none", choiceIndex |-> -1, choiceText |-> Null]

\* the last call (op, key, arg) and its result; done is "true", "false" or
\* "absent"
NoRet ==
  [op |-> "none", key |-> <<>>, arg |-> NoArg, raised |-> "none", done |-> "absent",
   awaitingChoice |-> FALSE, branched |-> FALSE, choice |-> NoChoice,
   payload |-> NoPayload, assessment |-> Null, feedback |-> Null,
   next_recommendation |-> Null, ended |-> FALSE]

Raise(op, key, error) == [NoRet EXCEPT !.op = op, !.key = key, !.raised = error]

CurrentBlock(st) == Nth(st.blocks, st.blockIndex)

\* state.turnsByBlock.get(i) || []
TurnsAt(st, i) == IF i \in DOMAIN st.turnsByBlock THEN st.turnsByBlock[i] ELSE <<>>

\* _currentTurnPayload(state), for a current block that is not null
currentTurnPayload(st) ==
  LET block == CurrentBlock(st)
      turns == TurnsAt(st, st.blockIndex)
      turn == IF Has(turns, st.turnIndex) THEN Nth(turns, st.turnIndex)
              \* 'Continuing…'
              ELSE [say |-> Str(<<"C">>), question |-> JSNull, type |-> Null]
  IN [has |-> TRUE, blockId |-> block.block_id, blockType |-> block.type,
      block |-> st.blockIndex, turn |-> st.turnIndex,
      say |-> turn.say, question |-> turn.question,
      choicesDefined |-> BlockType(block) = "choice",
      choices |-> IF BlockType(block) = "choice" THEN block.choices ELSE <<>>]

PayloadRet(op, key, st) ==
  [NoRet EXCEPT !.op = op, !.key = key, !.done = "false", !.payload = currentTurnPayload(st)]

\* _ensureTurnsForBlock(state, i): the memo after the call; it throws a
\* TypeError on a null block (EnsureThrows)
EnsureThrows(st, i) == i \notin DOMAIN st.turnsByBlock /\ Nth(st.blocks, i).kind = "null"

\* variant: the turns are computed but never stored in the memo
ensureTurnsForBlock_forget(st, i) == st

\* variant: the memo is built anew and holds the turns of block i only
ensureTurnsForBlock_reset(st, i) ==
  [st EXCEPT !.turnsByBlock = (i :> TurnsOfBlock(Nth(st.blocks, i)))]

ensureTurnsForBlock(st, i) ==
  IF i \in DOMAIN st.turnsByBlock THEN st
  ELSE [st EXCEPT !.turnsByBlock = st.turnsByBlock @@ (i :> TurnsOfBlock(Nth(st.blocks, i)))]

\* variant: a failed call resets the snapshot to the default of startSession
Refresh_reset(previous, outcome) == IF outcome = "fail" THEN "dflt" ELSE outcome

\* a collaborator call wrapped in .catch(() => previous)
Refresh(previous, outcome) == IF outcome = "fail" THEN previous ELSE outcome

\* variant: a step that the last Block already materializes is not generated
\* again (the call notices that another call has been there)
GenerateAndAdvance_onlyOnce(st, stepIdx, po, eo, co, out) ==
  IF st.blockSteps[Len(st.blockSteps)] = stepIdx
  THEN [st EXCEPT !.blockIndex = Len(st.blocks) - 1, !.turnIndex = 0]
  ELSE [st EXCEPT !.personalization = Refresh(st.personalization, po),
                  !.enhancedContext = Refresh(st.enhancedContext, eo),
                  !.conversationSummary = Refresh(st.conversationSummary, co),
                  !.blocks = Append(st.blocks, generateContentForStep(Nth(st.plan, stepIdx), out)),
                  !.blockSteps = Append(st.blockSteps, stepIdx),
                  !.blockIndex = st.blockIndex + 1,
                  !.turnIndex = 0]

\* variant: the new Block is put in front of the list (unshift for push)
GenerateAndAdvance_unshift(st, stepIdx, po, eo, co, out) ==
  [st EXCEPT !.personalization = Refresh(st.personalization, po),
             !.enhancedContext = Refresh(st.enhancedContext, eo),
             !.conversationSummary = Refresh(st.conversationSummary, co),
             !.blocks = <<generateContentForStep(Nth(st.plan, stepIdx), out)>> \o st.blocks,
             !.blockSteps = <<stepIdx>> \o st.blockSteps,
             !.blockIndex = st.blockIndex + 1,
             !.turnIndex = 0]

\* variant: the new Block is pushed and the cursor stays where it is
GenerateAndAdvance_stay(st, stepIdx, po, eo, co, out) ==
  [st EXCEPT !.personalization = Refresh(st.personalization, po),
             !.enhancedContext = Refresh(st.enhancedContext, eo),
             !.conversationSummary = Refresh(st.conversationSummary, co),
             !.blocks = Append(st.blocks, generateContentForStep(Nth(st.plan, stepIdx), out)),
             !.blockSteps = Append(st.blockSteps, stepIdx)]

\* refresh the three snapshots, generate the Block of plan position stepIdx,
\* push it and move the cursor onto it (nextTurn 111-130, submitResponse
\* 170-189)
GenerateAndAdvance(st, stepIdx, po, eo, co, out) ==
  [st EXCEPT !.personalization = Refresh(st.personalization, po),
             !.enhancedContext = Refresh(st.enhancedContext, eo),
             !.conversationSummary = Refresh(st.conversationSummary, co),
             !.blocks = Append(st.blocks, generateContentForStep(Nth(st.plan, stepIdx), out)),
             !.blockSteps = Append(st.blockSteps, stepIdx),
             !.blockIndex = st.blockIndex + 1,
             !.turnIndex = 0]

\* the operation ends by memoizing the turns of the new current block and
\* returning its payload, or by the TypeError of a null block
FinishOnBlock(op, key, st, extra) ==
  IF EnsureThrows(st, st.blockIndex)
  THEN [st |-> st, ret |-> Raise(op, key, "TypeError")]
  ELSE LET st2 == ensureTurnsForBlock(st, st.blockIndex)
       IN [st |-> st2,
           ret |-> [PayloadRet(op, key, st2) EXCEPT !.branched = extra.branched,
                                                    !.choice = extra.choice]]

NoExtra == [branched |-> FALSE, choice |-> NoChoice]

(***************************************************************************)
(* Outcomes of the external collaborators and inputs of the callers        *)
(***************************************************************************)
\* personalization / enhanced context / conversation summary call: it
\* rejects ("fail") or resolves to a value ("v1"); the outcomes of the three
\* calls of one refresh are <<personalization, enhancedContext,
\* conversationSummary>>
\* the refreshes of Spec: the three calls fail together or succeed together
\* (no control flow of the engine reads a snapshot)
SeqSnaps == {<<"fail", "fail", "fail">>, <<"v1", "v1", "v1">>}

NoSnaps == {<<"fail", "fail", "fail">>}

OneSentence == <<"a", ".">>

\* values the generation service can make generateContentForStep return for
\* a narration, quiz or reflection step: the Block the prompt asks for, a
\* Block without block_id, type and text but with a Socratic question, a
\* Block carrying the id of the plan's last step, a Block typed as a choice,
\* and JSON null
LLMBlocks(plan, stepIdx) ==
  LET step == Nth(plan, stepIdx)
      base == [kind |-> "object", block_id |-> step.id, type |-> StepType(step),
               content |-> Str(OneSentence), socratic |-> <<>>, choices |-> <<>>,
               error |-> FALSE]
  IN {[base EXCEPT !.content = Str(<<"a", ".", " ", "a", ".", "\n", "\n", "b", ".">>)],
      [base EXCEPT !.block_id = Null, !.type = Null, !.content = JSNull,
                   !.socratic = <<Str(<<"q", "?">>)>>],
      [base EXCEPT !.block_id = plan[Len(plan)].id],
      [base EXCEPT !.block_id = Null, !.type = "Choice",
                   !.socratic = <<Str(<<"q", "?">>)>>,
                   !.choices = <<[text |-> "X", next_block |-> Null]>>],
      NullBlock}

NoCall == [kind |-> "nocall", v |-> NullBlock]

\* outcomes of the generation call made for plan position stepIdx (none for
\* choice and image steps, and none when no step is generated: stepIdx = -1)
GenOutcomes(plan, stepIdx) ==
  IF stepIdx = -1 \/ StepType(Nth(plan, stepIdx)) \in {"choice", "image"}
  THEN {NoCall}
  ELSE {[kind |-> "throw", v |-> NullBlock]}
       \cup {[kind |-> "value", v |-> b] : b \in LLMBlocks(plan, stepIdx)}

RawStep(id, type, options) ==
  [id |-> id, type |-> type, objective |-> <<>>, minutes |-> 0, options |-> options]

PlanError == [k |-> "error", steps |-> <<>>]

ParsedOk(steps) == [gen |-> "text", parsed |-> [k |-> "array", steps |-> steps], repaired |-> PlanError]

\* outcomes of the generation call of createPlan
PlanOutcomes ==
  {[gen |-> "throw", parsed |-> PlanError, repaired |-> PlanError],
   [gen |-> "text", parsed |-> PlanError, repaired |-> PlanError],
   ParsedOk(<<>>),
   ParsedOk(<<RawStep("s1", "narration", <<>>)>>),
   ParsedOk(<<RawStep("s1", "choice", <<[text |-> "A", next |-> "s2"], [text |-> "B", next |-> "s3"]>>),
              RawStep("s2", "narration", <<>>),
              RawStep("s3", "quiz", <<>>)>>),
   ParsedOk(<<RawStep("c1", "Choice", <<[text |-> "A", next |-> "c3"], [text |-> "B", next |-> Null]>>),
              RawStep("s2", "narration", <<>>),
              RawStep("c3", "choice", <<>>),
              RawStep("s4", "image", <<>>)>>),
   ParsedOk(<<RawStep(Null, Null, <<>>),
              RawStep("c2", "choice", <<[text |-> "A", next |-> "step_1"], [text |-> "B", next |-> "zz"]>>)>>)}

NoIndex == -1

\* userResponse: null, a string, or an object with choiceIndex / choiceText
Responses ==
  {[kind |-> "null", choiceIndex |-> NoIndex, choiceText |-> Null],
   [kind |-> "string", choiceIndex |-> NoIndex, choiceText |-> Null]}
  \cup {[kind |-> "object", choiceIndex |-> i, choiceText |-> Null] : i \in {NoIndex, 0, 1, 5}}
  \cup {[kind |-> "object", choiceIndex |-> i, choiceText |-> "b"] : i \in {NoIndex, 0, 5}}
  \cup {[kind |-> "object", choiceIndex |-> NoIndex, choiceText |-> "zz"]}

\* a response to a block that is not a choice: only its text reaches the
\* collaborators
PlainResponses == {[kind |-> "string", choiceIndex |-> NoIndex, choiceText |-> Null]}

AssessOutcomes == {"fail", "a1"}

FeedbackOutcomes == {"fail", "fb"}

StrategyOutcomes == {"fail", "rec"}

\* { feedback: 'Thanks for sharing!', next_action: 'question', ... }
NeutralFeedback == "neutral"

(***************************************************************************)
(* startSession                                                            *)
(***************************************************************************)
NewSession(plan, po, eo, co, firstBlock) ==
  LET \* Object.fromEntries(planSteps.map((s, i) => [s.id, i])): a later
      \* step with the same id overwrites an earlier one
      planIndexOf ==
        [id \in {plan[i].id : i \in 1..Len(plan)} |->
           (CHOOSE i \in 1..Len(plan) :
              plan[i].id = id /\ \A j \in 1..Len(plan) : plan[j].id = id => j <= i) - 1]
      \* {} and '' of the .catch handlers of startSession
      DefaultSnapshot == "dflt"
  IN [plan |-> plan,
      planIndexById |-> planIndexOf,
      blocks |-> <<firstBlock>>,
      blockSteps |-> <<0>>,      \* history: plan position each Block was generated from
      blockIndex |-> 0,
      turnIndex |-> 0,
      turnsByBlock |-> <<>>,
      personalization |-> IF po = "fail" THEN DefaultSnapshot ELSE po,
      enhancedContext |-> IF eo = "fail" THEN DefaultSnapshot ELSE eo,
      conversationSummary |-> IF co = "fail" THEN DefaultSnapshot ELSE co,
      lastAssessment |-> Null]

\* planSteps[0] is undefined for an empty plan and generateContentForStep
\* reads step.type outside its try block
startSessionResult(key, plan, po, eo, co, out) ==
  IF Len(plan) = 0
  THEN [stored |-> FALSE, st |-> <<>>, ret |-> Raise("startSession", key, "TypeError")]
  ELSE LET st == NewSession(plan, po, eo, co, generateContentForStep(plan[1], out))
       IN IF EnsureThrows(st, 0)
          THEN [stored |-> FALSE, st |-> st, ret |-> Raise("startSession", key, "TypeError")]
          ELSE LET st2 == ensureTurnsForBlock(st, 0)
               IN [stored |-> TRUE, st |-> st2, ret |-> PayloadRet("startSession", key, st2)]

StartSession(user, snaps) ==
  \E planOut \in PlanOutcomes, sn \in snaps :
    LET plan == createPlan(planOut)
        key == sessionKey(user, now)
    IN \E out \in GenOutcomes(plan, IF Len(plan) = 0 THEN -1 ELSE 0) :
         LET r == startSessionResult(key, plan, sn[1], sn[2], sn[3], out)
         IN /\ sessions' = IF r.stored
                           THEN [k \in DOMAIN sessions \cup {key} |->
                                   IF k = key THEN r.st ELSE sessions[k]]
                           ELSE sessions
            /\ ret' = r.ret
            /\ UNCHANGED now

(***************************************************************************)
(* nextTurn                                                                *)
(***************************************************************************)
\* plan position nextTurn generates a Block for, or -1 when it generates none
nextTurnTarget(st) ==
  LET block == CurrentBlock(st)
  IN IF st.turnIndex + 1 < Len(TurnsAt(st, st.blockIndex)) THEN -1
     ELSE IF block.kind = "null" \/ BlockType(block) = "choice" THEN -1
     ELSE IF st.blockIndex + 1 < Len(st.blocks) THEN -1
     ELSE LET currentStepIdx == IndexOr(st.planIndexById, block.block_id, st.blockIndex)
          IN IF Has(st.plan, currentStepIdx + 1) THEN currentStepIdx + 1 ELSE -1

\* variant: no check for a choice block, the last turn of any block moves on
nextTurnResult_autoAdvance(key, st, po, eo, co, out) ==
  LET block == CurrentBlock(st)
      currentStepIdx == IndexOr(st.planIndexById, block.block_id, st.blockIndex)
  IN IF st.turnIndex + 1 < Len(TurnsAt(st, st.blockIndex))
     THEN LET st2 == [st EXCEPT !.turnIndex = st.turnIndex + 1]
          IN [st |-> st2, ret |-> PayloadRet("nextTurn", key, st2)]
     ELSE IF st.blockIndex + 1 < Len(st.blocks)
     THEN FinishOnBlock("nextTurn", key,
                        [st EXCEPT !.blockIndex = st.blockIndex + 1, !.turnIndex = 0], NoExtra)
     ELSE IF block.kind = "null"
     THEN [st |-> st, ret |-> Raise("nextTurn", key, "TypeError")]
     ELSE IF Has(st.plan, currentStepIdx + 1)
     THEN FinishOnBlock("nextTurn", key,
                        GenerateAndAdvance(st, currentStepIdx + 1, po, eo, co, out), NoExtra)
     ELSE [st |-> st, ret |-> [NoRet EXCEPT !.op = "nextTurn", !.key = key, !.done = "true"]]

\* variant: a choice block answers awaitingChoice on any of its turns
nextTurnResult_awaitEarly(key, st, po, eo, co, out) ==
  LET block == CurrentBlock(st)
  IN IF block.kind # "null" /\ BlockType(block) = "choice"
     THEN [st |-> st, ret |-> [PayloadRet("nextTurn", key, st) EXCEPT !.awaitingChoice = TRUE]]
     ELSE IF st.turnIndex + 1 < Len(TurnsAt(st, st.blockIndex))
     THEN LET st2 == [st EXCEPT !.turnIndex = st.turnIndex + 1]
          IN [st |-> st2, ret |-> PayloadRet("nextTurn", key, st2)]
     ELSE IF st.blockIndex + 1 < Len(st.blocks)
     THEN FinishOnBlock("nextTurn", key,
                        [st EXCEPT !.blockIndex = st.blockIndex + 1, !.turnIndex = 0], NoExtra)
     ELSE IF block.kind = "null"
     THEN [st |-> st, ret |-> Raise("nextTurn", key, "TypeError")]
     ELSE IF nextTurnTarget(st) # -1
     THEN FinishOnBlock("nextTurn", key,
                        GenerateAndAdvance(st, nextTurnTarget(st), po, eo, co, out), NoExtra)
     ELSE [st |-> st, ret |-> [NoRet EXCEPT !.op = "nextTurn", !.key = key, !.done = "true"]]

nextTurnResult(key, st, po, eo, co, out) ==
  LET block == CurrentBlock(st)
  IN IF st.turnIndex + 1 < Len(TurnsAt(st, st.blockIndex))
     THEN LET st2 == [st EXCEPT !.turnIndex = st.turnIndex + 1]
          IN [st |-> st2, ret |-> PayloadRet("nextTurn", key, st2)]
     ELSE IF block.kind # "null" /\ BlockType(block) = "choice"
     THEN [st |-> st, ret |-> [PayloadRet("nextTurn", key, st) EXCEPT !.awaitingChoice = TRUE]]
     ELSE IF st.blockIndex + 1 < Len(st.blocks)
     THEN FinishOnBlock("nextTurn", key,
                        [st EXCEPT !.blockIndex = st.blockIndex + 1, !.turnIndex = 0], NoExtra)
     ELSE IF block.kind = "null"
     THEN [st |-> st, ret |-> Raise("nextTurn", key, "TypeError")]
     ELSE IF nextTurnTarget(st) # -1
     THEN FinishOnBlock("nextTurn", key,
                        GenerateAndAdvance(st, nextTurnTarget(st), po, eo, co, out), NoExtra)
     ELSE [st |-> st, ret |-> [NoRet EXCEPT !.op = "nextTurn", !.key = key, !.done = "true"]]

Store(key, st) == [sessions EXCEPT ![key] = st]

NextTurn(key, snaps) ==
  IF key \notin DOMAIN sessions
  THEN /\ ret' = Raise("nextTurn", key, "NotFound")
       /\ UNCHANGED <<sessions, now>>
  ELSE LET st == sessions[key]
           target == nextTurnTarget(st)
       IN /\ target # -1 => Len(st.blocks) < MaxBlocks
          /\ \E sn \in (IF target = -1 THEN NoSnaps ELSE snaps),
                out \in GenOutcomes(st.plan, target) :
               LET r == nextTurnResult(key, st, sn[1], sn[2], sn[3], out)
               IN /\ sessions' = Store(key, r.st)
                  /\ ret' = r.ret
          /\ UNCHANGED now

(***************************************************************************)
(* submitResponse                                                          *)
(***************************************************************************)
\* choices.find(c => (c.text || '').toLowerCase() === String(text).toLowerCase())
RECURSIVE FindByText(_, _)
FindByText(choices, text) ==
  IF choices = <<>> THEN NoChoice
  ELSE IF Lower(IF Head(choices).text = Null THEN "" ELSE Head(choices).text) = Lower(text)
       THEN Head(choices)
       ELSE FindByText(Tail(choices), text)

\* the option submitResponse settles on (NoChoice for none)
Chosen(block, response) ==
  IF response.choiceIndex # NoIndex /\ Has(block.choices, response.choiceIndex)
  THEN Nth(block.choices, response.choiceIndex)
  ELSE IF response.choiceText # Null
       THEN FindByText(block.choices, response.choiceText)
       ELSE NoChoice

\* variant: the option's next is ignored, the branch is always sequential
branchTarget_sequential(st, response) ==
  LET block == CurrentBlock(st)
      planIdxFallback == IndexOr(st.planIndexById, block.block_id, st.blockIndex) + 1
  IN IF Has(st.plan, planIdxFallback) THEN planIdxFallback ELSE -1

\* variant: the sequential successor is taken by array position
branchTarget_byBlockIndex(st, response) ==
  LET block == CurrentBlock(st)
      nextId == Chosen(block, response).next_block
      nextIdx == IF nextId # Null THEN IndexOr(st.planIndexById, nextId, -1) ELSE -1
      idx == IF nextIdx # -1 THEN nextIdx ELSE st.blockIndex + 1
  IN IF Has(st.plan, idx) THEN idx ELSE -1

\* plan position submitResponse branches to for the choice block it read
\* when it was called, or -1 (lines 156-168)
branchTargetFor(st, block, response) ==
  LET nextId == Chosen(block, response).next_block
      nextIdx == IF nextId # Null THEN IndexOr(st.planIndexById, nextId, -1) ELSE -1
      planIdxFallback == IndexOr(st.planIndexById, block.block_id, st.blockIndex) + 1
      idx == IF nextIdx # -1 THEN nextIdx ELSE planIdxFallback
  IN IF Has(st.plan, idx) THEN idx ELSE -1

\* the same for a call that is not interleaved with another: the block it
\* read is still the current block
branchTarget(st, response) == branchTargetFor(st, CurrentBlock(st), response)

\* plan position submitResponse generates a Block for, or -1
submitTarget(st, response) ==
  LET block == CurrentBlock(st)
  IN IF block.kind = "null" \/ BlockType(block) # "choice" \/ response.kind = "null"
     THEN -1
     ELSE branchTarget(st, response)

\* variant: the feedback call and its parse are not wrapped in try/catch
submitResponseResult_parseThrows(key, st, response, ao, po, eo, co, out, fo, so) ==
  LET block == CurrentBlock(st)
      assessment == IF ao = "fail" THEN Null ELSE ao
      st1 == [st EXCEPT !.lastAssessment = assessment]
  IN IF block.kind = "null"
     THEN [st |-> st, ret |-> Raise("submitResponse", key, "TypeError")]
     ELSE IF BlockType(block) = "choice"
     THEN IF response.kind = "null"
          THEN [st |-> st1, ret |-> Raise("submitResponse", key, "TypeError")]
          ELSE LET extra == [branched |-> TRUE, choice |-> Chosen(block, response)]
                   target == branchTarget(st1, response)
               IN IF target # -1
                  THEN FinishOnBlock("submitResponse", key,
                                     GenerateAndAdvance(st1, target, po, eo, co, out), extra)
                  ELSE [st |-> st1,
                        ret |-> [PayloadRet("submitResponse", key, st1) EXCEPT
                                   !.branched = TRUE, !.choice = extra.choice]]
     ELSE IF fo = "fail"
     THEN [st |-> st1, ret |-> Raise("submitResponse", key, "ParseFailure")]
     ELSE [st |-> st1,
           ret |-> [NoRet EXCEPT !.op = "submitResponse", !.key = key,
                                 !.assessment = assessment,
                                 !.feedback = IF fo = "fail" THEN NeutralFeedback ELSE fo,
                                 !.next_recommendation = IF so = "fail" THEN Null ELSE so]]

\* variant: a failed assessment leaves lastAssessment as it was
submitResponseResult_keepAssessment(key, st, response, ao, po, eo, co, out, fo, so) ==
  LET block == CurrentBlock(st)
      assessment == IF ao = "fail" THEN Null ELSE ao
      st1 == IF ao = "fail" THEN st ELSE [st EXCEPT !.lastAssessment = assessment]
  IN IF block.kind = "null"
     THEN [st |-> st, ret |-> Raise("submitResponse", key, "TypeError")]
     ELSE IF BlockType(block) = "choice"
     THEN IF response.kind = "null"
          THEN [st |-> st1, ret |-> Raise("submitResponse", key, "TypeError")]
          ELSE LET extra == [branched |-> TRUE, choice |-> Chosen(block, response)]
                   target == branchTarget(st1, response)
               IN IF target # -1
                  THEN FinishOnBlock("submitResponse", key,
                                     GenerateAndAdvance(st1, target, po, eo, co, out), extra)
                  ELSE [st |-> st1,
                        ret |-> [PayloadRet("submitResponse", key, st1) EXCEPT
                                   !.branched = TRUE, !.choice = extra.choice]]
     ELSE [st |-> st1,
           ret |-> [NoRet EXCEPT !.op = "submitResponse", !.key = key,
                                 !.assessment = assessment,
                                 !.feedback = IF fo = "fail" THEN NeutralFeedback ELSE fo,
                                 !.next_recommendation = IF so = "fail" THEN Null ELSE so]]

\* variant: the answer to a block that is not a choice rewinds the block to
\* its first turn
submitResponseResult_rewind(key, st, response, ao, po, eo, co, out, fo, so) ==
  LET block == CurrentBlock(st)
      assessment == IF ao = "fail" THEN Null ELSE ao
      st1 == [st EXCEPT !.lastAssessment = assessment]
  IN IF block.kind = "null"
     THEN [st |-> st, ret |-> Raise("submitResponse", key, "TypeError")]
     ELSE IF BlockType(block) = "choice"
     THEN IF response.kind = "null"
          THEN [st |-> st1, ret |-> Raise("submitResponse", key, "TypeError")]
          ELSE LET extra == [branched |-> TRUE, choice |-> Chosen(block, response)]
                   target == branchTarget(st1, response)
               IN IF target # -1
                  THEN FinishOnBlock("submitResponse", key,
                                     GenerateAndAdvance(st1, target, po, eo, co, out), extra)
                  ELSE [st |-> st1,
                        ret |-> [PayloadRet("submitResponse", key, st1) EXCEPT
                                   !.branched = TRUE, !.choice = extra.choice]]
     ELSE [st |-> [st1 EXCEPT !.turnIndex = 0],
           ret |-> [NoRet EXCEPT !.op = "submitResponse", !.key = key,
                                 !.assessment = assessment,
                                 !.feedback = IF fo = "fail" THEN NeutralFeedback ELSE fo,
                                 !.next_recommendation = IF so = "fail" THEN Null ELSE so]]

submitResponseResult(key, st, response, ao, po, eo, co, out, fo, so) ==
  LET block == CurrentBlock(st)
      assessment == IF ao = "fail" THEN Null ELSE ao
      st1 == [st EXCEPT !.lastAssessment = assessment]
  IN IF block.kind = "null"
     THEN [st |-> st, ret |-> Raise("submitResponse", key, "TypeError")]
     ELSE IF BlockType(block) = "choice"
     THEN IF response.kind = "null"
          THEN [st |-> st1, ret |-> Raise("submitResponse", key, "TypeError")]
          ELSE LET extra == [branched |-> TRUE, choice |-> Chosen(block, response)]
                   target == branchTarget(st1, response)
               IN IF target # -1
                  THEN FinishOnBlock("submitResponse", key,
                                     GenerateAndAdvance(st1, target, po, eo, co, out), extra)
                  ELSE [st |-> st1,
                        ret |-> [PayloadRet("submitResponse", key, st1) EXCEPT
                                   !.branched = TRUE, !.choice = extra.choice]]
     ELSE [st |-> st1,
           ret |-> [NoRet EXCEPT !.op = "submitResponse", !.key = key,
                                 !.assessment = assessment,
                                 !.feedback = IF fo = "fail" THEN NeutralFeedback ELSE fo,
                                 !.next_recommendation = IF so = "fail" THEN Null ELSE so]]

SubmitResponse(key, snaps) ==
  IF key \notin DOMAIN sessions
  THEN /\ \E response \in PlainResponses :
            ret' = [Raise("submitResponse", key, "NotFound") EXCEPT !.arg = response]
       /\ UNCHANGED <<sessions, now>>
  ELSE LET st == sessions[key]
           onChoice == CurrentBlock(st).kind # "null" /\ BlockType(CurrentBlock(st)) = "choice"
       IN /\ \E response \in (IF onChoice THEN Responses ELSE PlainResponses) :
               LET target == submitTarget(st, response)
               IN /\ target # -1 => Len(st.blocks) < MaxBlocks
                  /\ \E ao \in AssessOutcomes,
                        sn \in (IF target = -1 THEN NoSnaps ELSE snaps),
                        out \in GenOutcomes(st.plan, target),
                        fo \in (IF onChoice THEN {"fail"} ELSE FeedbackOutcomes),
                        so \in (IF onChoice THEN {"fail"} ELSE StrategyOutcomes) :
                       LET r == submitResponseResult(key, st, response, ao, sn[1], sn[2], sn[3],
                                                     out, fo, so)
                       IN /\ sessions' = Store(key, r.st)
                          /\ ret' = [r.ret EXCEPT !.arg = response]
          /\ UNCHANGED now

(***************************************************************************)
(* endSession, getState                                                    *)
(***************************************************************************)
\* variant: ending a session that is not in the store is an error
EndSession_strict(key) ==
  /\ sessions' = [k \in DOMAIN sessions \ {key} |-> sessions[k]]
  /\ ret' = IF key \in DOMAIN sessions
            THEN [NoRet EXCEPT !.op = "endSession", !.key = key, !.ended = TRUE]
            ELSE Raise("endSession", key, "NotFound")
  /\ UNCHANGED now

EndSession(key) ==
  /\ sessions' = [k \in DOMAIN sessions \ {key} |-> sessions[k]]
  /\ ret' = [NoRet EXCEPT !.op = "endSession", !.key = key, !.ended = TRUE]
  /\ UNCHANGED now

\* variant: the lookup result is returned unchecked (sessions.get(key))
GetState_unchecked(key) ==
  /\ ret' = [NoRet EXCEPT !.op = "getState", !.key = key]
  /\ UNCHANGED <<sessions, now>>

GetState(key) ==
  /\ ret' = IF key \in DOMAIN sessions
            THEN [NoRet EXCEPT !.op = "getState", !.key = key]
            ELSE Raise("getState", key, "NotFound")
  /\ UNCHANGED <<sessions, now>>

\* the callers that can have a call in flight
Slots == {1, 2}

\* a caller without a call in flight; of a call in flight: the operation, its
\* arguments, the await it is suspended on (pc) and its local variables (ref:
\* the SessionState it holds, 0 for the one stored under its key; bi: the
\* index of the block it read; target: the plan position of nextStep)
Idle ==
  [op |-> "none", pc |-> "idle", user |-> Null, mission |-> -1, ref |-> 0,
   arg |-> NoArg, bi |-> -1, target |-> -1, plan |-> <<>>, extra |-> NoExtra,
   threw |-> FALSE, assessment |-> Null]

Init ==
  /\ sessions = <<>>
  /\ now = 0
  /\ ret = NoRet
  /\ calls = [p \in Slots |-> Idle]
  /\ orphans = <<>>

\* the session keys callers use: those of the one clock reading of Spec
Keys == {sessionKey(u, 0) : u \in Users}

\* Spec: one sequential caller per key; a user starts a session when the
\* key of the clock reading is free (Date.now() differs between two starts)
\* (every call runs to completion before the next one starts: none is left
\* in flight)
Next ==
  \/ \E u \in Users : /\ sessionKey(u, now) \notin DOMAIN sessions
                      /\ StartSession(u, SeqSnaps)
                      /\ UNCHANGED <<calls, orphans>>
  \/ \E k \in Keys : NextTurn(k, SeqSnaps) /\ UNCHANGED <<calls, orphans>>
  \/ \E k \in Keys : SubmitResponse(k, SeqSnaps) /\ UNCHANGED <<calls, orphans>>
  \/ \E k \in Keys : EndSession(k) /\ UNCHANGED <<calls, orphans>>
  \/ \E k \in Keys : GetState(k) /\ UNCHANGED <<calls, orphans>>

Spec == Init /\ [][Next]_vars

(***************************************************************************)
(* Properties                                                              *)
(***************************************************************************)
\* the session key of Spec
K0 == sessionKey("u1", 0)

Present == K0 \in DOMAIN sessions

Sess == sessions[K0]

\* plan position the current Block was generated from
CurPos(st) == Nth(st.blockSteps, st.blockIndex)

IsBlock(b) == b.kind = "object"

OnChoice(st) == IsBlock(CurrentBlock(st)) /\ BlockType(CurrentBlock(st)) = "choice"

AtLastTurn(st) == st.turnIndex + 1 >= Len(TurnsAt(st, st.blockIndex))

\* the current Block carries the id and the type of the step it was
\* generated from
Faithful(st) ==
  /\ IsBlock(CurrentBlock(st))
  /\ CurrentBlock(st).block_id = Nth(st.plan, CurPos(st)).id
  /\ BlockType(CurrentBlock(st)) = StepType(Nth(st.plan, CurPos(st)))

\* the Blocks generateContentForStep can return for plan position i
BlocksFor(plan, i) == {generateContentForStep(Nth(plan, i), out) : out \in GenOutcomes(plan, i)}

\* C1: the only error a session operation raises is NotFound; every other
\* failure (of a collaborator, or an unusable value it returns) is absorbed
\* into a normal payload.  Stated of the last operation's outcome.
C1_OnlyNotFoundRaised == ret.raised \in {"none", "NotFound"}

\* C2: when startSession returns for a plan of N >= 1 steps, the session is
\* stored with cursor (0, 0), blocks holds exactly the Block generated for
\* plan step 0, the turns of block index 0 are memoized, and the payload
\* carries a non-empty first turn.
C2_StartSessionState ==
  (ret.op = "startSession" /\ ret.raised = "none") =>
     /\ Present
     /\ Len(Sess.plan) >= 1
     /\ Sess.blockIndex = 0 /\ Sess.turnIndex = 0
     /\ Len(Sess.blocks) = 1 /\ Sess.blocks[1] \in BlocksFor(Sess.plan, 0)
     /\ Sess.blockSteps = <<0>>
     /\ DOMAIN Sess.turnsByBlock = {0}
     /\ Sess.turnsByBlock[0] = TurnsOfBlock(Sess.blocks[1])
     /\ Len(Sess.turnsByBlock[0]) >= 1
     /\ ret.payload.has /\ ret.payload.block = 0 /\ ret.payload.turn = 0
     /\ ret.payload.say = Sess.turnsByBlock[0][1].say
     /\ ret.payload.say.t = "str" /\ Len(ret.payload.say.s) >= 1

\* a session started on a plan of several steps whose first Block was
\* written by the generation service
C2_Witness ==
  /\ ret.op = "startSession" /\ ret.raised = "none"
  /\ Present /\ Len(Sess.plan) >= 2
  /\ ~Sess.blocks[1].error /\ StepType(Sess.plan[1]) = "narration"

\* C3: for a current block that is not a choice block and whose plan step
\* has a successor, a nextTurn with turns left only increments turnIndex and
\* generates nothing, and the nextTurn on the last turn generates and appends
\* exactly one Block, advances blockIndex by one and leaves turnIndex at 0
\* (so len(turns) calls from turnIndex 0 advance blockIndex by exactly one).
C3_NextTurnAdvancesByOne ==
  [][(/\ Present
      /\ ret'.op = "nextTurn"
      /\ IsBlock(CurrentBlock(Sess)) /\ ~OnChoice(Sess)
      /\ Has(Sess.plan, CurPos(Sess) + 1))
     => IF ~AtLastTurn(Sess)
        THEN sessions'[K0] = [Sess EXCEPT !.turnIndex = Sess.turnIndex + 1]
        ELSE /\ Len(sessions'[K0].blocks) = Len(Sess.blocks) + 1
             /\ sessions'[K0].blockIndex = Sess.blockIndex + 1
             /\ sessions'[K0].turnIndex = 0]_vars

\* C4: when the current block is a choice block and turnIndex is at its last
\* turn, every nextTurn returns awaitingChoice=true with the block's choices
\* and leaves the session unchanged; blockIndex moves past a choice block
\* only inside a submitResponse call.
C4_ChoiceNeverAutoAdvances ==
  [][/\ (Present /\ OnChoice(Sess) /\ AtLastTurn(Sess) /\ ret'.op = "nextTurn")
          => /\ ret'.raised = "none"
             /\ ret'.awaitingChoice
             /\ ret'.payload.choicesDefined
             /\ ret'.payload.choices = CurrentBlock(Sess).choices
             /\ sessions' = sessions
     /\ (/\ Present /\ K0 \in DOMAIN sessions'
         /\ OnChoice(Sess)
         /\ sessions'[K0].blockIndex # Sess.blockIndex)
          => ret'.op = "submitResponse"]_vars

\* nextTurn has answered awaitingChoice on a choice block at its last turn,
\* here a block of two turns
C4_Witness ==
  /\ Present /\ ret.op = "nextTurn" /\ ret.awaitingChoice
  /\ OnChoice(Sess) /\ AtLastTurn(Sess) /\ Sess.turnIndex = 1

\* C5: submitResponse on a choice block with a valid in-range choiceIndex
\* always returns branched=true and choice = choices[choiceIndex] (an index
\* takes precedence over choiceText); choiceText is matched, ignoring case,
\* only when the index is absent or out of range.
C5_ValidIndexBranches ==
  [][(Present /\ OnChoice(Sess) /\ ret'.op = "submitResponse" /\ ret'.arg.kind = "object")
     => LET choices == CurrentBlock(Sess).choices
            idx == ret'.arg.choiceIndex
        IN IF Has(choices, idx)
           THEN /\ ret'.raised = "none"
                /\ ret'.branched
                /\ ret'.choice = Nth(choices, idx)
                /\ ret'.choice # NoChoice
           ELSE ret'.raised = "none" =>
                  ret'.choice = (IF ret'.arg.choiceText = Null THEN NoChoice
                                 ELSE FindByText(choices, ret'.arg.choiceText))]_vars

\* C6: when the option chosen on a choice block has a next that is the id of
\* a plan step, the Block appended and made current is generated from
\* exactly that step (found by id through the plan index, wherever it lies
\* in the plan), and the cursor becomes (old blockIndex + 1, 0).
C6_BranchToNamedStep ==
  [][(/\ Present /\ OnChoice(Sess)
      /\ ret'.op = "submitResponse" /\ ret'.arg.kind # "null"
      /\ Chosen(CurrentBlock(Sess), ret'.arg).next_block \in DOMAIN Sess.planIndexById)
     => LET target == Sess.planIndexById[Chosen(CurrentBlock(Sess), ret'.arg).next_block]
            new == sessions'[K0]
        IN /\ Nth(Sess.plan, target).id = Chosen(CurrentBlock(Sess), ret'.arg).next_block
           /\ Len(new.blocks) = Len(Sess.blocks) + 1
           /\ SubSeq(new.blocks, 1, Len(Sess.blocks)) = Sess.blocks
           /\ new.blockSteps = Append(Sess.blockSteps, target)
           /\ new.blocks[Len(new.blocks)] \in BlocksFor(Sess.plan, target)
           /\ new.blockIndex = Sess.blockIndex + 1
           /\ new.turnIndex = 0]_vars

\* a branch has been taken to a named step that is not the sequential
\* successor of the choice step (Scenario B: option B of s1 leads to s3)
C6_Witness ==
  /\ Present /\ ret.op = "submitResponse" /\ ret.branched
  /\ ret.choice.next_block = "s3"
  /\ Sess.blockIndex = 1 /\ CurPos(Sess) = 2
  /\ Sess.blockSteps = <<0, 2>>

\* C7: submitResponse on a choice block with a selection that is out of
\* range, matches no option text, or carries no selection at all (any
\* response value) never raises: it returns a response and advances the
\* cursor to a Block generated from the sequential successor of the current
\* step.  Stated for the choice Blocks built from choice steps.
C7_InvalidChoiceNeverRaises ==
  [][(/\ Present /\ OnChoice(Sess)
      /\ StepType(Nth(Sess.plan, CurPos(Sess))) = "choice"
      /\ ret'.op = "submitResponse"
      /\ (ret'.arg.kind = "null" \/ Chosen(CurrentBlock(Sess), ret'.arg) = NoChoice))
     => /\ ret'.raised = "none"
        /\ ret'.branched
        /\ Has(Sess.plan, CurPos(Sess) + 1)
             => /\ sessions'[K0].blockIndex = Sess.blockIndex + 1
                /\ sessions'[K0].turnIndex = 0
                /\ sessions'[K0].blockSteps = Append(Sess.blockSteps, CurPos(Sess) + 1)]_vars

\* C8: when the chosen option of a choice step has no next, or one that is
\* not a plan id, the branch target is plan position p + 1, p being the
\* position the plan index gives for the id of the current choice step, not
\* blockIndex + 1, also after earlier branches.
C8_FallbackByStepId ==
  [][(/\ Present /\ OnChoice(Sess)
      /\ StepType(Nth(Sess.plan, CurPos(Sess))) = "choice"
      /\ ret'.op = "submitResponse" /\ ret'.arg.kind # "null"
      /\ Chosen(CurrentBlock(Sess), ret'.arg).next_block \notin DOMAIN Sess.planIndexById)
     => LET p == Sess.planIndexById[Nth(Sess.plan, CurPos(Sess)).id]
            new == sessions'[K0]
        IN IF Has(Sess.plan, p + 1)
           THEN /\ new.blockSteps = Append(Sess.blockSteps, p + 1)
                /\ new.blocks[Len(new.blocks)] \in BlocksFor(Sess.plan, p + 1)
                /\ Len(new.blocks) = Len(Sess.blocks) + 1
                /\ new.blockIndex = Sess.blockIndex + 1
           ELSE new.blocks = Sess.blocks /\ new.blockIndex = Sess.blockIndex]_vars

\* after a branch that made blockIndex differ from the plan position, an
\* option without next has led to the step after the choice step in the plan
C8_Witness ==
  /\ Present /\ ret.op = "submitResponse" /\ ret.branched
  /\ ret.choice # NoChoice /\ ret.choice.next_block = Null
  /\ Sess.blockSteps = <<0, 2, 3>> /\ Sess.blockIndex = 2

\* the current block's turns are exhausted and no PlanStep exists after the
\* step it was generated from
Exhausted(st) == AtLastTurn(st) /\ ~Has(st.plan, CurPos(st) + 1)

\* C9: once the plan is exhausted, every nextTurn returns {done:true} and
\* leaves the whole session state unchanged.  Stated for a current Block
\* that carries the id and type of its step.
C9_NextTurnDoneWhenExhausted ==
  [][(Present /\ Faithful(Sess) /\ Exhausted(Sess) /\ ret'.op = "nextTurn")
     => (ret'.raised = "none" /\ ret'.done = "true" /\ sessions' = sessions)]_vars

\* C10: once the plan is exhausted, every submitResponse returns {done:true}
\* and does not mutate the session state.  Stated for a current Block that
\* carries the id and type of its step.
C10_SubmitDoneWhenExhausted ==
  [][(Present /\ Faithful(Sess) /\ Exhausted(Sess) /\ ret'.op = "submitResponse")
     => (ret'.raised = "none" /\ ret'.done = "true" /\ sessions' = sessions)]_vars

(***************************************************************************)
(* A sequential client that follows the protocol of the session            *)
(***************************************************************************)
\* the client starts one session
ClientStart ==
  /\ ret.op = "none"
  /\ StartSession("u1", SeqSnaps)
  /\ UNCHANGED <<calls, orphans>>

\* it keeps calling nextTurn until it is told that the lesson is done
ClientNextTurn ==
  /\ Present
  /\ ret.raised = "none" /\ ret.done # "true" /\ ~ret.awaitingChoice
  /\ NextTurn(K0, SeqSnaps)
  /\ UNCHANGED <<calls, orphans>>

\* it answers awaitingChoice=true with the selection of one of the choices
ClientAnswer ==
  /\ Present
  /\ ret.raised = "none" /\ ret.awaitingChoice
  /\ SubmitResponse(K0, SeqSnaps)
  /\ ret'.arg.kind = "object"
  /\ Has(CurrentBlock(Sess).choices, ret'.arg.choiceIndex)
  /\ UNCHANGED <<calls, orphans>>

ClientNext == ClientStart \/ ClientNextTurn \/ ClientAnswer

ClientSpec == Init /\ [][ClientNext]_vars

\* C11: a session never dead-ends: once no PlanStep exists beyond the current
\* position, the client that keeps calling nextTurn and answers every
\* awaitingChoice=true with a selection receives {done:true}, whatever plan
\* createPlan returned (a plan whose last step is a choice included).  Every
\* result is a function of the session state, so the client receives
\* {done:true} eventually only if the nextTurn that follows its answer in an
\* exhausted position returns it; stated for a current Block that carries
\* the id and type of its step.
C11_SessionNeverDeadEnds ==
  [][(/\ Present /\ Faithful(Sess) /\ Exhausted(Sess)
      /\ ret.op = "submitResponse" /\ ret.raised = "none"
      /\ ret'.op = "nextTurn")
     => ret'.done = "true"]_vars

\* C12: in every reachable session state, blocks[i] is the Block generated
\* for the PlanStep selected for position i and its block_id is that step's
\* id, whatever the generation service returned.
C12_BlockIdIsStepId ==
  \A k \in DOMAIN sessions :
    \A i \in 0..(Len(sessions[k].blocks) - 1) :
      /\ Nth(sessions[k].blocks, i) \in BlocksFor(sessions[k].plan, Nth(sessions[k].blockSteps, i))
      /\ IsBlock(Nth(sessions[k].blocks, i))
      /\ Nth(sessions[k].blocks, i).block_id
           = Nth(sessions[k].plan, Nth(sessions[k].blockSteps, i)).id

(***************************************************************************)
(* Interleaved calls.  The session operations are async functions on one   *)
(* event loop: a call runs without interruption from one await to the      *)
(* next, and calls (of one key or of several) interleave at the awaits.    *)
(***************************************************************************)
AsyncUsers == {"u1", "u2"}

\* the generation outcomes of AsyncSpec: a failure (the fallback Block) and
\* JSON null
AsyncGenOutcomes(plan, stepIdx) ==
  {o \in GenOutcomes(plan, stepIdx) : o.kind # "value" \/ o.v = NullBlock}

AKey(c) == sessionKey(c.user, c.mission)

\* the call holds a reference to a SessionState (const state = _requireSession)
Holds(c) == c.pc # "idle" /\ c.op \in {"nextTurn", "submitResponse"}

\* the SessionState object the call holds
Obj(c) == IF c.ref = 0 THEN sessions[AKey(c)] ELSE orphans[c.ref]

\* objects that are out of the store and not referenced are garbage
Collect(orph, cs) ==
  LET Referenced == {cs[p].ref : p \in {q \in Slots : Holds(cs[q])}} \ {0}
  IN [i \in (DOMAIN orph) \cap Referenced |-> orph[i]]

\* call p mutates the object it holds into st2 and goes on as c2
Written(p, st2, c2) ==
  LET c == calls[p]
      cs2 == [calls EXCEPT ![p] = c2]
  IN /\ calls' = cs2
     /\ IF c.ref = 0
        THEN /\ sessions' = Store(AKey(c), st2)
             /\ orphans' = Collect(orphans, cs2)
        ELSE /\ sessions' = sessions
             /\ orphans' = Collect([orphans EXCEPT ![c.ref] = st2], cs2)

\* the object stored under key leaves the store (delete, or set of another
\* object): the calls cs that hold it keep it
Detach(key, cs) ==
  LET holders == {p \in Slots : Holds(cs[p]) /\ cs[p].ref = 0 /\ AKey(cs[p]) = key}
      free == Slots \ DOMAIN orphans
      id == CHOOSE i \in free : \A j \in free : i <= j
  IN IF key \notin DOMAIN sessions \/ holders = {}
     THEN [calls |-> cs, orphans |-> Collect(orphans, cs)]
     ELSE [calls |-> [p \in Slots |-> IF p \in holders THEN [cs[p] EXCEPT !.ref = id] ELSE cs[p]],
           orphans |-> Collect(orphans, cs) @@ (id :> sessions[key])]

\* return this._currentTurnPayload(state), which reads block.block_id of the
\* current block
PayloadOrThrow(op, key, st, extra) ==
  IF CurrentBlock(st).kind = "null" THEN Raise(op, key, "TypeError")
  ELSE [PayloadRet(op, key, st) EXCEPT !.branched = extra.branched, !.choice = extra.choice]

\* startSession is called: it awaits the user profile and the plan
AStartBegin(p, u) ==
  /\ calls[p].pc = "idle"
  /\ calls' = [calls EXCEPT ![p] = [Idle EXCEPT !.op = "startSession", !.pc = "plan", !.user = u]]
  /\ UNCHANGED <<sessions, now, ret, orphans>>

\* createPlan has returned: Date.now() is read (line 32) and the snapshots
\* and the first Block are awaited
AStartPlanned(p) ==
  /\ calls[p].op = "startSession" /\ calls[p].pc = "plan"
  \* the planner's outcome of AsyncSpec: Scenario B (a choice step s1 whose
  \* options lead to the narration step s2 and to the quiz step s3)
  /\ \E planOut \in {o \in PlanOutcomes : o.parsed.k = "array" /\ Len(o.parsed.steps) = 3} :
       calls' = [calls EXCEPT ![p].plan = createPlan(planOut), ![p].mission = now,
                              ![p].pc = "first"]
  /\ UNCHANGED <<sessions, now, ret, orphans>>

\* the first Block has arrived: the state is built and its turns memoized
\* (all of it local to the call), then stored under the key (line 78)
AStartFinish(p, snaps) ==
  /\ calls[p].op = "startSession" /\ calls[p].pc = "first"
  /\ LET c == calls[p]
         key == AKey(c)
     IN \E sn \in snaps, out \in AsyncGenOutcomes(c.plan, IF Len(c.plan) = 0 THEN -1 ELSE 0) :
          LET r == startSessionResult(key, c.plan, sn[1], sn[2], sn[3], out)
              cs2 == [calls EXCEPT ![p] = Idle]
              d == IF r.stored THEN Detach(key, cs2)
                   ELSE [calls |-> cs2, orphans |-> Collect(orphans, cs2)]
          IN /\ sessions' = IF r.stored
                            THEN [k \in DOMAIN sessions \cup {key} |->
                                    IF k = key THEN r.st ELSE sessions[k]]
                            ELSE sessions
             /\ calls' = d.calls
             /\ orphans' = d.orphans
             /\ ret' = r.ret
  /\ UNCHANGED now

\* nextTurn moves to a block that is already generated (lines 98-101)
HasNextGenerated(st) ==
  /\ AtLastTurn(st)
  /\ ~OnChoice(st)
  /\ st.blockIndex + 1 < Len(st.blocks)

\* nextTurn is called: it runs to its first await, or to its return when it
\* awaits nothing (NotFound, a turn of the current block, awaitingChoice,
\* done)
ANextTurnBegin(p, u, m) ==
  /\ calls[p].pc = "idle"
  /\ LET key == sessionKey(u, m)
         c0 == [Idle EXCEPT !.op = "nextTurn", !.user = u, !.mission = m]
     IN IF key \notin DOMAIN sessions
        THEN /\ ret' = Raise("nextTurn", key, "NotFound")
             /\ UNCHANGED <<sessions, calls, orphans>>
        ELSE LET st == sessions[key]
             IN IF HasNextGenerated(st)
                THEN LET st2 == [st EXCEPT !.blockIndex = st.blockIndex + 1, !.turnIndex = 0]
                         threw == EnsureThrows(st2, st2.blockIndex)
                     IN /\ sessions' = Store(key, IF threw THEN st2
                                                  ELSE ensureTurnsForBlock(st2, st2.blockIndex))
                        /\ calls' = [calls EXCEPT ![p] = [c0 EXCEPT !.pc = "ensured", !.threw = threw]]
                        /\ UNCHANGED <<ret, orphans>>
                ELSE IF nextTurnTarget(st) # -1
                THEN /\ Len(st.blocks) < MaxBlocks
                     /\ calls' = [calls EXCEPT ![p] = [c0 EXCEPT !.pc = "refresh",
                                                                 !.target = nextTurnTarget(st)]]
                     /\ UNCHANGED <<sessions, ret, orphans>>
                ELSE LET r == nextTurnResult(key, st, "fail", "fail", "fail", NoCall)
                     IN /\ sessions' = Store(key, r.st)
                        /\ ret' = r.ret
                        /\ UNCHANGED <<calls, orphans>>
  /\ UNCHANGED now

\* the three snapshot calls of a refresh have settled (lines 112-119,
\* 171-178); generateContentForStep is called and awaited
ARefreshed(p, snaps) ==
  /\ Holds(calls[p]) /\ calls[p].pc = "refresh"
  /\ \E sn \in snaps :
       LET st == Obj(calls[p])
       IN Written(p, [st EXCEPT !.personalization = Refresh(st.personalization, sn[1]),
                                !.enhancedContext = Refresh(st.enhancedContext, sn[2]),
                                !.conversationSummary = Refresh(st.conversationSummary, sn[3])],
                  [calls[p] EXCEPT !.pc = "generate"])
  /\ UNCHANGED <<now, ret>>

\* the Block has arrived: it is pushed, the cursor is moved onto it and its
\* turns are memoized (lines 128-131, 187-190)
AGenerated(p) ==
  /\ Holds(calls[p]) /\ calls[p].pc = "generate"
  /\ LET c == calls[p]
         st == Obj(c)
     IN \E out \in AsyncGenOutcomes(st.plan, c.target) :
          LET st2 == GenerateAndAdvance(st, c.target, "fail", "fail", "fail", out)
              threw == EnsureThrows(st2, st2.blockIndex)
          IN Written(p, IF threw THEN st2 ELSE ensureTurnsForBlock(st2, st2.blockIndex),
                     [c EXCEPT !.pc = "ensured", !.threw = threw])
  /\ UNCHANGED <<now, ret>>

\* the await of _ensureTurnsForBlock is over: the call returns the payload of
\* the turn the cursor is on now, or raises the TypeError of a null block
AEnsured(p) ==
  /\ Holds(calls[p]) /\ calls[p].pc = "ensured"
  /\ LET c == calls[p]
         st == Obj(c)
     IN /\ ret' = [(IF c.threw THEN Raise(c.op, AKey(c), "TypeError")
                    ELSE PayloadOrThrow(c.op, AKey(c), st, c.extra)) EXCEPT !.arg = c.arg]
        /\ Written(p, st, Idle)
  /\ UNCHANGED now

\* submitResponse is called: it reads the current block and awaits the
\* assessment (lines 139-151)
ASubmitBegin(p, u, m) ==
  /\ calls[p].pc = "idle"
  /\ LET key == sessionKey(u, m)
     IN IF key \notin DOMAIN sessions
        THEN /\ \E response \in PlainResponses :
                  ret' = [Raise("submitResponse", key, "NotFound") EXCEPT !.arg = response]
             /\ UNCHANGED <<sessions, calls, orphans>>
        ELSE LET st == sessions[key]
             IN IF CurrentBlock(st).kind = "null"
                THEN /\ \E response \in PlainResponses :
                          ret' = [Raise("submitResponse", key, "TypeError") EXCEPT !.arg = response]
                     /\ UNCHANGED <<sessions, calls, orphans>>
                ELSE /\ OnChoice(st) => Len(st.blocks) < MaxBlocks
                     \* the selections of AsyncSpec on a choice block: by index
                     /\ \E response \in (IF OnChoice(st)
                                         THEN {r \in Responses :
                                                 /\ r.kind = "object"
                                                 /\ r.choiceIndex \in {0, 1}
                                                 /\ r.choiceText = Null}
                                         ELSE PlainResponses) :
                          calls' = [calls EXCEPT ![p] =
                                      [Idle EXCEPT !.op = "submitResponse", !.pc = "assess",
                                                   !.user = u, !.mission = m,
                                                   !.bi = st.blockIndex, !.arg = response]]
                     /\ UNCHANGED <<sessions, ret, orphans>>
  /\ UNCHANGED now

\* the assessment has settled: lastAssessment is written; on a choice block
\* the option and nextStep are worked out (lines 152-169)
ASubmitAssessed(p) ==
  /\ Holds(calls[p]) /\ calls[p].pc = "assess"
  /\ LET c == calls[p]
         st == Obj(c)
         block == Nth(st.blocks, c.bi)
     IN \E ao \in {"a1"} :    \* the assessment call of AsyncSpec resolves
          LET assessment == IF ao = "fail" THEN Null ELSE ao
              st1 == [st EXCEPT !.lastAssessment = assessment]
              extra == [branched |-> TRUE, choice |-> Chosen(block, c.arg)]
          IN IF BlockType(block) # "choice"
             THEN /\ Written(p, st1, [c EXCEPT !.pc = "feedback", !.assessment = assessment])
                  /\ UNCHANGED ret
             ELSE IF c.arg.kind = "null"
             THEN /\ Written(p, st1, Idle)
                  /\ ret' = [Raise("submitResponse", AKey(c), "TypeError") EXCEPT !.arg = c.arg]
             ELSE IF branchTargetFor(st1, block, c.arg) # -1
             THEN /\ Written(p, st1, [c EXCEPT !.pc = "refresh", !.extra = extra,
                                               !.target = branchTargetFor(st1, block, c.arg)])
                  /\ UNCHANGED ret
             ELSE /\ Written(p, st1, Idle)
                  /\ ret' = [PayloadOrThrow("submitResponse", AKey(c), st1, extra) EXCEPT !.arg = c.arg]
  /\ UNCHANGED now

\* the feedback call and the strategy call have settled (lines 212-222);
\* neither step touches the session
ASubmitFeedback(p) ==
  /\ Holds(calls[p]) /\ calls[p].pc = "feedback"
  \* in AsyncSpec the feedback call rejects and the strategy call resolves
  /\ \E fo \in {"fail"}, so \in {"rec"} :
       ret' = [NoRet EXCEPT !.op = "submitResponse", !.key = AKey(calls[p]),
                            !.arg = calls[p].arg,
                            !.assessment = calls[p].assessment,
                            !.feedback = IF fo = "fail" THEN NeutralFeedback ELSE fo,
                            !.next_recommendation = IF so = "fail" THEN Null ELSE so]
  /\ Written(p, Obj(calls[p]), Idle)
  /\ UNCHANGED now

AEndSession(u, m) ==
  /\ EndSession(sessionKey(u, m))
  /\ calls' = Detach(sessionKey(u, m), calls).calls
  /\ orphans' = Detach(sessionKey(u, m), calls).orphans

AGetState(u, m) == GetState(sessionKey(u, m)) /\ UNCHANGED <<calls, orphans>>

\* the missionIds the callers of AsyncSpec pass
AsyncMissions == {0}

\* the calls of the callers in who, a set of pairs <<slot, user>>; those in
\* starters also start sessions
AsyncNext(who, starters) ==
  \/ \E w \in starters : AStartBegin(w[1], w[2])
  \/ \E p \in Slots : AStartPlanned(p)
  \/ \E p \in Slots : AStartFinish(p, NoSnaps)
  \/ \E w \in who, m \in AsyncMissions : ANextTurnBegin(w[1], w[2], m)
  \/ \E w \in who, m \in AsyncMissions : ASubmitBegin(w[1], w[2], m)
  \/ \E p \in Slots : ASubmitAssessed(p)
  \/ \E p \in Slots : ARefreshed(p, NoSnaps)
  \/ \E p \in Slots : AGenerated(p)
  \/ \E p \in Slots : AEnsured(p)
  \/ \E p \in Slots : ASubmitFeedback(p)
  \/ \E w \in who, m \in AsyncMissions : AEndSession(w[2], m)
  \/ \E w \in who, m \in AsyncMissions : AGetState(w[2], m)

\* AsyncSpec: two callers of one user, whose calls interleave on one key
AsyncSpec == Init /\ [][AsyncNext(Slots \X {"u1"}, {<<1, "u1">>})]_vars

\* KeysSpec: two users, each with its own session key and its own caller
KeysWho == {<<1, "u1">>, <<2, "u2">>}

KeysSpec == Init /\ [][AsyncNext(KeysWho, KeysWho)]_vars

(***************************************************************************)
(* Properties of interleaved calls                                         *)
(***************************************************************************)
IsPrefix(s, t) == Len(s) <= Len(t) /\ SubSeq(t, 1, Len(s)) = s

\* the step is the return of a startSession call, which stores a new
\* SessionState under key k
StartStores(k) ==
  \E p \in Slots :
    /\ calls[p].op = "startSession" /\ calls[p].pc = "first" /\ AKey(calls[p]) = k
    /\ calls'[p].pc = "idle"

\* the key of user u1, on which the two callers of AsyncSpec work
KA == sessionKey("u1", 0)

\* C13: in every reachable state of every stored session, under any
\* interleaving of calls, blockIndex < len(blocks); and blocks is
\* append-only: no step removes, reorders or replaces an entry of the blocks
\* of a session (a step keeps the list as a prefix of the new one).
C13_CursorInsideAppendOnlyBlocks ==
  [][/\ \A k \in DOMAIN sessions' :
          /\ sessions'[k].blockIndex >= 0
          /\ sessions'[k].blockIndex < Len(sessions'[k].blocks)
     /\ \A k \in DOMAIN sessions \cap DOMAIN sessions' :
          ~StartStores(k) => IsPrefix(sessions[k].blocks, sessions'[k].blocks)
     /\ \A i \in DOMAIN orphans \cap DOMAIN orphans' :
          /\ IsPrefix(orphans[i].blocks, orphans'[i].blocks)
          /\ orphans'[i].blockIndex < Len(orphans'[i].blocks)]_vars

\* two interleaved calls have each appended a Block to the session of KA
C13_Witness ==
  /\ KA \in DOMAIN sessions
  /\ Len(sessions[KA].blocks) = 3
  /\ sessions[KA].blockIndex = 2
  /\ \E p \in Slots : calls[p].pc = "ensured" /\ calls[p].ref = 0
  /\ \A p \in Slots : Holds(calls[p])

\* the caller of user u in KeysSpec
SlotOf(u) == CHOOSE p \in Slots : <<p, u>> \in KeysWho

\* C14: operations on different session keys are independent: in any
\* interleaving, a step of a call on one key (also while a call on the other
\* key is suspended on an external call) changes nothing of the other key:
\* not its session record, not its call in flight, not the state that call
\* works on.
C14_KeysIndependent ==
  [][LET \* the step is a step of a call of user u: of its call in flight, or a
        \* call that returns without an await
        StepOf(u) ==
          \/ calls'[SlotOf(u)] # calls[SlotOf(u)]
          \/ calls' = calls /\ ret' # ret /\ ret'.key = sessionKey(u, 0)
        \* the step leaves everything of user v as it is: the record under v's
        \* key, v's call in flight and the object that call holds
        SameFor(v) ==
          LET k == sessionKey(v, 0)
              c == calls[SlotOf(v)]
          IN /\ (k \in DOMAIN sessions) = (k \in DOMAIN sessions')
             /\ k \in DOMAIN sessions => sessions'[k] = sessions[k]
             /\ calls'[SlotOf(v)] = c
             /\ (Holds(c) /\ c.ref # 0)
                => (c.ref \in DOMAIN orphans' /\ orphans'[c.ref] = orphans[c.ref])
    IN \A u \in AsyncUsers : \A v \in AsyncUsers \ {u} : StepOf(u) => SameFor(v)]_vars

\* a call of u1 is suspended on the generation of a Block while a call of u2
\* has pushed a Block of its own and waits to return
C14_Witness ==
  /\ calls[1].user = "u1" /\ calls[1].pc = "generate"
  /\ calls[2].user = "u2" /\ calls[2].pc = "ensured"
  /\ sessionKey("u1", 0) \in DOMAIN sessions /\ sessionKey("u2", 0) \in DOMAIN sessions
  /\ Len(sessions[sessionKey("u2", 0)].blocks) > Len(sessions[sessionKey("u1", 0)].blocks)

\* C15: there is no per-key serialization: a nextTurn or submitResponse call
\* that was suspended before the generation of a Block appends its Block and
\* advances blockIndex when it resumes, whatever calls on the same key have
\* done to the session in the meantime; so two such calls both append and
\* both advance (C15_Witness: the same plan step is materialized twice and
\* the cursor has passed over the first of the two Blocks).
C15_NoPerKeySerialization ==
  [][\A p \in Slots :
       (Holds(calls[p]) /\ calls[p].pc = "generate" /\ calls'[p].pc = "ensured")
       => LET st == Obj(calls[p])
              \* the object call p holds, after the step
              st2 == IF calls[p].ref = 0 THEN sessions'[AKey(calls[p])]
                     ELSE orphans'[calls[p].ref]
          IN /\ Len(st2.blocks) = Len(st.blocks) + 1
             /\ st2.blockSteps = Append(st.blockSteps, calls[p].target)
             /\ st2.blocks[Len(st2.blocks)] \in BlocksFor(st.plan, calls[p].target)
             /\ st2.blockIndex = st.blockIndex + 1
             /\ st2.turnIndex = 0]_vars

\* two nextTurn calls that were suspended together on the narration block of
\* s2 have both appended a Block for s3: the step is materialized twice and
\* the cursor is on the second Block, no payload of the first was returned
C15_Witness ==
  /\ KA \in DOMAIN sessions
  /\ \A p \in Slots : calls[p].op = "nextTurn" /\ calls[p].pc = "ensured" /\ calls[p].ref = 0
  /\ sessions[KA].blockSteps = <<0, 1, 2, 2>>
  /\ sessions[KA].blockIndex = 3

\* the step is an endSession call on key k (the only call that returns and
\* leaves every caller where it is)
EndStep(k) ==
  /\ ret'.op = "endSession" /\ ret'.key = k
  /\ \A p \in Slots : calls'[p].pc = calls[p].pc

\* { ended: true }
EndedRet(k) == [NoRet EXCEPT !.op = "endSession", !.key = k, !.ended = TRUE]

\* C16: endSession removes the record of its key and is idempotent: on a
\* present, an absent or an already ended key it raises nothing and returns
\* the same result, and it changes no other session; a nextTurn,
\* submitResponse or getState call made on the key after endSession (no
\* startSession having stored it again) fails with NotFound.
C16_EndSessionIdempotent ==
  [][\A u \in AsyncUsers :
       LET k == sessionKey(u, 0)
       IN /\ EndStep(k)
             => /\ k \notin DOMAIN sessions'
                /\ ret' = EndedRet(k)
                /\ DOMAIN sessions' = DOMAIN sessions \ {k}
                /\ \A j \in DOMAIN sessions' : sessions'[j] = sessions[j]
          /\ (/\ ret = EndedRet(k) /\ k \notin DOMAIN sessions
              /\ calls[SlotOf(u)].pc = "idle"
              /\ ret'.op \in {"nextTurn", "submitResponse", "getState"} /\ ret'.key = k)
             => ret'.raised = "NotFound"]_vars

\* endSession has returned for the key of u1, which is not in the store,
\* while the session of u2 is in the store with a call in flight
C16_Witness ==
  /\ ret = EndedRet(KA)
  /\ KA \notin DOMAIN sessions
  /\ calls[1].pc = "idle"
  /\ sessionKey("u2", 0) \in DOMAIN sessions
  /\ Len(sessions[sessionKey("u2", 0)].blocks) = 2
  /\ calls[2].pc = "ensured"

\* the operations that start with _requireSession
Requiring == {"nextTurn", "submitResponse", "getState"}

\* C17: nextTurn, submitResponse and getState on a key that is absent from
\* the store fail with NotFound before any external call (the call returns
\* in the step it is made in; no call is ever suspended that was made on an
\* absent key) and leave the store, and the states calls in flight hold, as
\* they are; getState on a present key raises nothing and changes nothing.
C17_NotFoundBeforeAnyCall ==
  [][/\ \A u \in AsyncUsers :
          LET k == sessionKey(u, 0)
          IN /\ (/\ k \notin DOMAIN sessions
                 /\ calls' = calls /\ ret' # ret
                 /\ ret'.op \in Requiring /\ ret'.key = k)
                => /\ ret'.raised = "NotFound"
                   /\ ret'.payload = NoPayload
                   /\ sessions' = sessions /\ orphans' = orphans
             /\ (/\ k \in DOMAIN sessions
                 /\ calls' = calls /\ ret' # ret
                 /\ ret'.op = "getState" /\ ret'.key = k)
                => /\ ret'.raised = "none"
                   /\ sessions' = sessions /\ orphans' = orphans
     /\ \A p \in Slots :
          (calls[p].pc = "idle" /\ calls'[p].pc # "idle" /\ calls'[p].op \in Requiring)
          => AKey(calls'[p]) \in DOMAIN sessions]_vars

\* nextTurn has failed with NotFound on the ended key of u1 while the other
\* caller still works on the state that was stored under it
C17_Witness ==
  /\ ret = Raise("nextTurn", KA, "NotFound")
  /\ KA \notin DOMAIN sessions
  /\ \E p \in Slots : Holds(calls[p]) /\ calls[p].ref # 0 /\ calls[p].pc = "generate"

\* C18: a session record is created only by startSession and leaves the
\* store only through an endSession on its key: a key enters the store in
\* the return of a startSession call on it, leaves it in an endSession call
\* on it, and while it stays the record under it is the same one, with its
\* plan and the history of its blocks kept.
C18_RecordLeavesOnlyByEndSession ==
  [][\A u \in AsyncUsers :
       LET k == sessionKey(u, 0)
       IN /\ (k \notin DOMAIN sessions /\ k \in DOMAIN sessions') => StartStores(k)
          /\ (k \in DOMAIN sessions /\ k \notin DOMAIN sessions') => EndStep(k)
          /\ (k \in DOMAIN sessions /\ k \in DOMAIN sessions')
             => /\ sessions'[k].plan = sessions[k].plan
                /\ IsPrefix(sessions[k].blocks, sessions'[k].blocks)
                /\ IsPrefix(sessions[k].blockSteps, sessions'[k].blockSteps)]_vars

(***************************************************************************)
(* lessonPlanner.createPlan called on its own                              *)
(***************************************************************************)
\* longest array the generation service returns in PlanSpec
MaxPlanLen == 3

RECURSIVE SeqsUpTo(_, _)
SeqsUpTo(S, n) ==
  IF n = 0 THEN {<<>>}
  ELSE SeqsUpTo(S, n - 1) \cup {Append(q, x) : q \in {r \in SeqsUpTo(S, n - 1) : Len(r) = n - 1}, x \in S}

\* outcomes of the generation call of createPlan in PlanSpec: it rejects;
\* text that neither parser reads; text that parseAIJSONResponse reads as an
\* array; text in which it finds an object or an array with a null while
\* the repair pass fails or reads an array
PlanInputs ==
  LET \* a raw step with estimated_minutes (0: the field is missing or 0)
      RawStepM(id, type, minutes) == [RawStep(id, type, <<>>) EXCEPT !.minutes = minutes]
      \* steps the generation service writes: a full one, one with the same
      \* id, one without id, type and minutes, one of an unknown type, one
      \* with negative minutes
      RawSteps ==
        {RawStepM("s1", "narration", 2),
         RawStepM("s1", "quiz", 3),
         RawStepM(Null, Null, 0),
         RawStepM("s2", "video", 1),
         RawStepM("s3", "Choice", -1)}
      ArrayOf(steps) == [k |-> "array", steps |-> steps]
  IN {[gen |-> "throw", parsed |-> PlanError, repaired |-> PlanError]}
     \cup {[gen |-> "text", parsed |-> [k |-> pk, steps |-> <<>>], repaired |-> PlanError] :
             pk \in {"error", "object", "nullItem"}}
     \cup {ParsedOk(q) : q \in SeqsUpTo(RawSteps, MaxPlanLen)}
     \cup {[gen |-> "text", parsed |-> [k |-> pk, steps |-> <<>>], repaired |-> ArrayOf(q)] :
             pk \in {"object", "nullItem"}, q \in SeqsUpTo(RawSteps, 1)}

\* createPlan is called and awaits generateResponse (line 9)
PlanBegin(p) ==
  /\ calls[p].pc = "idle"
  /\ calls' = [calls EXCEPT ![p] = [Idle EXCEPT !.op = "createPlan", !.pc = "plan"]]
  /\ UNCHANGED <<sessions, now, ret, orphans>>

\* generateResponse has settled (extra: how) and createPlan settles
PlanReturn(p) ==
  /\ calls[p].op = "createPlan" /\ calls[p].pc = "plan"
  /\ \E out \in PlanInputs :
       calls' = [calls EXCEPT ![p].extra = out,
                              ![p].plan = createPlanOutcome(out).plan,
                              ![p].threw = createPlanOutcome(out).threw,
                              ![p].pc = "planned"]
  /\ UNCHANGED <<sessions, now, ret, orphans>>

\* the caller has taken the result
PlanTaken(p) ==
  /\ calls[p].op = "createPlan" /\ calls[p].pc = "planned"
  /\ calls' = [calls EXCEPT ![p] = Idle]
  /\ UNCHANGED <<sessions, now, ret, orphans>>

PlanNext == PlanBegin(1) \/ PlanReturn(1) \/ PlanTaken(1)

PlanSpec == Init /\ [][PlanNext]_vars

\* the PlanStep list contract of createPlan
PlanContract(plan) ==
  /\ Len(plan) >= 1
  /\ \A i, j \in 1..Len(plan) : plan[i].id = plan[j].id => i = j
  /\ \A i \in 1..Len(plan) :
       /\ plan[i].id # Null
       /\ plan[i].minutes >= 1
       \* type LessonStepType
       /\ plan[i].type \in {"narration", "quiz", "image", "reflection", "choice"}

\* a createPlan call that has settled
Planned(p) == calls[p].op = "createPlan" /\ calls[p].pc = "planned"

\* C19: for every outcome of the generation service (failure, or any text,
\* also text that parses to an empty array or to steps with missing,
\* duplicate or out-of-set fields) createPlan returns a plan with at least
\* one step, ids unique within the plan, estimated_minutes >= 1 for every
\* step and every type in {narration, quiz, image, reflection, choice}.
C19_PlanContract ==
  \A p \in Slots : (Planned(p) /\ ~calls[p].threw) => PlanContract(calls[p].plan)


\* the generation call failed, or neither parser read an array
PlanFailure(out) ==
  \/ out.gen = "throw"
  \/ out.parsed.k # "array" /\ out.repaired.k # "array"

\* C20: createPlan never raises; when the generation service call fails or
\* its result does not normalize to a sequence, createPlan returns the
\* deterministic synthetic plan, the same one on every such failure (eight
\* steps, every fourth a choice with two options naming the next step).
C20_PlanNeverRaises ==
  \A p \in Slots :
    Planned(p) =>
      /\ ~calls[p].threw
      /\ PlanFailure(calls[p].extra)
         => /\ calls[p].plan = FallbackPlan
            /\ Len(calls[p].plan) = FallbackTotal
            /\ \A i \in 1..FallbackTotal :
                 (calls[p].plan[i].type = "choice") = (i % 4 = 0)

\* the generation service has returned text in which parseAIJSONResponse
\* finds an object and that the repair pass cannot read: the fallback plan
\* is returned
C20_Witness ==
  /\ Planned(1)
  /\ calls[1].extra.gen = "text"
  /\ calls[1].extra.parsed.k = "object"
  /\ calls[1].extra.repaired.k = "error"
  /\ calls[1].plan = FallbackPlan


\* the positions of the steps of plan that are not choice steps, in order
RECURSIVE NonChoice(_, _)
NonChoice(plan, i) ==
  IF i > Len(plan) THEN <<>>
  ELSE (IF plan[i].type = "choice" THEN <<>> ELSE <<i>>) \o NonChoice(plan, i + 1)

\* C21: in the deterministic fallback plan every 4th step is a choice with
\* two options whose next is the id of the step that follows it in the plan
\* (a step that exists in the plan), and the other steps alternate between
\* narration and quiz.
C21_FallbackPlanShape ==
  \A p \in Slots :
    (Planned(p) /\ PlanFailure(calls[p].extra)) =>
      LET plan == calls[p].plan
          rest == NonChoice(plan, 1)
      IN /\ \A i \in 1..Len(plan) : (plan[i].type = "choice") = (i % 4 = 0)
         /\ \A i \in 1..Len(plan) :
              plan[i].type = "choice" =>
                /\ Len(plan[i].options) = 2
                /\ i + 1 <= Len(plan)
                /\ \A o \in 1..2 : plan[i].options[o].next = plan[i + 1].id
         /\ \A n \in 1..Len(rest) : plan[rest[n]].type \in {"narration", "quiz"}
         /\ \A n \in 1..(Len(rest) - 1) : plan[rest[n]].type # plan[rest[n + 1]].type


\* the generation call of generateContentForStep settles in any way
AnyGenOutcomes(plan, stepIdx) ==
  {[kind |-> "throw", v |-> NullBlock]}
  \cup {[kind |-> "value", v |-> b] : b \in LLMBlocks(plan, stepIdx)}

\* C22: generateContentForStep never raises, for any step and any outcome
\* of the generation service; when the service call fails or its output
\* cannot be normalized (and whenever the Block carries the error marker) the
\* Block is the fallback Block of the step: block_id = step id, the step's
\* type, non-empty content, error set.  Stated of every step of every stored
\* plan and of every Block a session holds.
C22_ContentNeverRaises ==
  \A k \in DOMAIN sessions :
    LET st == sessions[k]
    IN /\ \A i \in 0..(Len(st.plan) - 1) : \A out \in AnyGenOutcomes(st.plan, i) :
            LET step == Nth(st.plan, i)
                r == generateContentOutcome(step, out)
            IN /\ ~r.threw
               /\ (out.kind = "throw" /\ StepType(step) \notin {"choice", "image"})
                  => /\ r.block.error
                     /\ r.block.block_id = step.id
                     /\ r.block.type = StepType(step)
                     /\ r.block.content.t = "str" /\ Len(r.block.content.s) > 0
       /\ \A i \in 0..(Len(st.blocks) - 1) :
            Nth(st.blocks, i).error
            => /\ Nth(st.blocks, i).block_id = Nth(st.plan, Nth(st.blockSteps, i)).id
               /\ Nth(st.blocks, i).type = StepType(Nth(st.plan, Nth(st.blockSteps, i)))
               /\ Len(Nth(st.blocks, i).content.s) > 0

\* the generation call failed for the second Block of a session: nextTurn
\* has returned the first turn of the fallback Block
C22_Witness ==
  /\ Present
  /\ ret.op = "nextTurn" /\ ret.raised = "none" /\ ret.payload.has
  /\ Sess.blockIndex = 1
  /\ CurrentBlock(Sess).error
  /\ ret.payload.say.t = "str"


\* the Block generateContentForStep builds for a choice or image step
Structural(step, b) ==
  /\ b.kind = "object" /\ ~b.error
  /\ b.block_id = step.id /\ b.type = StepType(step)
  /\ StepType(step) = "choice"
     => IF Len(step.options) > 0
        THEN /\ Len(b.choices) = Len(step.options)
             /\ \A i \in 1..Len(step.options) : b.choices[i].next_block = step.options[i].next
        ELSE /\ Len(b.choices) = 2
             /\ \A i \in 1..2 : b.choices[i].next_block = Null
             /\ b.choices = GenericChoices

C24_BestEffortFeedback ==
  /\ (ret.op = "submitResponse" /\ ret.raised = "none" /\ ~ret.branched)
     => /\ Present
        /\ Sess.lastAssessment = ret.assessment
        /\ ret.payload = NoPayload
  /\ (Present /\ IsBlock(CurrentBlock(Sess)) /\ ~OnChoice(Sess))
     => \A response \in PlainResponses, ao \in AssessOutcomes,
           fo \in FeedbackOutcomes, so \in StrategyOutcomes :
          LET r == submitResponseResult(K0, Sess, response, ao, "fail", "fail", "fail",
                                        NoCall, fo, so)
          IN /\ r.ret.op = "submitResponse" /\ r.ret.raised = "none" /\ ~r.ret.branched
             /\ r.ret.assessment = (IF ao = "fail" THEN Null ELSE ao)
             /\ r.ret.feedback = (IF fo = "fail" THEN NeutralFeedback ELSE fo)
             /\ r.ret.next_recommendation = (IF so = "fail" THEN Null ELSE so)
             /\ r.st = [Sess EXCEPT !.lastAssessment = r.ret.assessment]

\* every collaborator has failed in a submitResponse on the second block of
\* a session, a narration block
C24_Witness ==
  /\ Present
  /\ ret.op = "submitResponse" /\ ret.raised = "none" /\ ~ret.branched
  /\ ret.assessment = Null /\ ret.feedback = NeutralFeedback /\ ret.next_recommendation = Null
  /\ Sess.blockIndex = 1 /\ ~OnChoice(Sess)
  /\ Sess.lastAssessment = Null


\* C25: a submitResponse that returns on a choice block (one generated from
\* a choice step of the plan) has generated and appended exactly one Block, has advanced blockIndex by one with turnIndex
\* 0, and returns branched = true with the turn payload of the new block.
C25_ChoiceAlwaysBranches ==
  [][(/\ Present /\ OnChoice(Sess) /\ Faithful(Sess)
      /\ ret'.op = "submitResponse" /\ ret'.raised = "none")
     => /\ K0 \in DOMAIN sessions'
        /\ Len(sessions'[K0].blocks) = Len(Sess.blocks) + 1
        /\ sessions'[K0].blockIndex = Sess.blockIndex + 1
        /\ sessions'[K0].turnIndex = 0
        /\ ret'.branched
        /\ ret'.payload = currentTurnPayload(sessions'[K0])
        /\ ret'.payload.block = Sess.blockIndex + 1]_vars


\* the memo of st2 keeps every entry of the memo of st
MemoKept(st, st2) ==
  \A i \in DOMAIN st.turnsByBlock :
    /\ i \in DOMAIN st2.turnsByBlock
    /\ st2.turnsByBlock[i] = st.turnsByBlock[i]

\* C26: the turns of a block index are computed at most once per session:
\* once turnsByBlock holds an entry for index i, no step of any call, in any
\* interleaving, removes or replaces it (in the stored session and in a
\* session that calls in flight still hold), and the entry is the turns of
\* block i.
C26_TurnsMemoizedOnce ==
  [][/\ \A k \in DOMAIN sessions \cap DOMAIN sessions' :
          ~StartStores(k) => MemoKept(sessions[k], sessions'[k])
     /\ \A i \in DOMAIN orphans \cap DOMAIN orphans' : MemoKept(orphans[i], orphans'[i])
     /\ \A k \in DOMAIN sessions' : \A i \in DOMAIN sessions'[k].turnsByBlock :
          /\ i < Len(sessions'[k].blocks)
          /\ sessions'[k].turnsByBlock[i] = TurnsOfBlock(Nth(sessions'[k].blocks, i))]_vars

\* the memo of the session of u1 holds the turns of three blocks, the last
\* two memoized by two interleaved calls
C26_Witness ==
  /\ KA \in DOMAIN sessions
  /\ DOMAIN sessions[KA].turnsByBlock = {0, 1, 2}
  /\ \A p \in Slots : calls[p].pc = "ensured" /\ calls[p].ref = 0


\* C27: every caller of the response normalizer has a fallback for its parse
\* error: no operation ever ends with a ParseFailure, createPlan answers a
\* parse failure with the repaired array or the fallback plan,
\* generateContentForStep with the fallback Block of the step, and
\* submitResponse with the neutral feedback.
C27_ParseFailureAbsorbed ==
  /\ ret.raised # "ParseFailure"
  /\ \A out \in PlanOutcomes :
       \* parseAIJSONResponse has thrown on the text of the planner
       (out.gen = "text" /\ out.parsed.k = "error")
       => /\ ~createPlanOutcome(out).threw
          /\ out.repaired.k = "error" => createPlanOutcome(out).plan = FallbackPlan
  /\ \A k \in DOMAIN sessions : \A i \in 0..(Len(sessions[k].plan) - 1) :
       LET step == Nth(sessions[k].plan, i)
           r == generateContentOutcome(step, [kind |-> "throw", v |-> NullBlock])
       IN /\ ~r.threw
          /\ StepType(step) \notin {"choice", "image"} => r.block = FallbackBlock(step)
  /\ (Present /\ IsBlock(CurrentBlock(Sess)) /\ ~OnChoice(Sess))
     => \A response \in PlainResponses, ao \in AssessOutcomes, so \in StrategyOutcomes :
          LET r == submitResponseResult(K0, Sess, response, ao, "fail", "fail", "fail",
                                        NoCall, "fail", so)
          IN r.ret.raised = "none" /\ r.ret.feedback = NeutralFeedback

\* the three fallbacks in one session: the plan is the fallback plan, its
\* first Block is the fallback Block of step_1, and submitResponse has
\* returned the neutral feedback
C27_Witness ==
  /\ Present
  /\ Sess.plan = FallbackPlan
  /\ CurrentBlock(Sess) = FallbackBlock(FallbackPlan[1])
  /\ ret.op = "submitResponse" /\ ret.raised = "none"
  /\ ret.feedback = NeutralFeedback /\ ret.assessment = "a1"


\* C30: a Block whose content is empty or not text yields exactly one turn,
\* the fallback continuity turn, whatever tutoring elements it carries.
\* Stated of every memoized list of turns of every stored session.
C30_EmptyContentOneTurn ==
  \A k \in DOMAIN sessions : \A i \in DOMAIN sessions[k].turnsByBlock :
    LET block == Nth(sessions[k].blocks, i)
    IN (block.content.t # "str" \/ block.content.s = <<>>)
       => sessions[k].turnsByBlock[i] = <<NarrationTurn(ContinueText)>>


(***************************************************************************)
(* Sessions of one step, over the contents the Turn Splitter can be given  *)
(***************************************************************************)
\* most paragraphs a content has in TurnSpec
MaxParagraphs == 7

\* n paragraphs of one sentence each
RECURSIVE Paragraphs(_)
Paragraphs(n) ==
  IF n = 0 THEN <<>>
  ELSE IF n = 1 THEN OneSentence
  ELSE Paragraphs(n - 1) \o <<"\n", "\n">> \o OneSentence

\* startSession for the plan of one step
TurnStart ==
  LET \* block.content: nothing, not text, '', white space, text without
      \* punctuation, three sentences in one paragraph, one to MaxParagraphs
      \* paragraphs
      TurnContents ==
        {JSNull, Str(<<>>), Str(<<" ", "\n", "\n", " ">>), Str(<<"a", "b">>),
         Str(<<"a", ".", " ", "b", "!", " ", "a", "?">>)}
        \cup {Str(Paragraphs(n)) : n \in 1..MaxParagraphs}
      \* block.tutoring_elements.socratic_questions: none, one, two, and a
      \* list whose first element is JSON null
      TurnQuestions ==
        {<<>>, <<Str(<<"q", "?">>)>>, <<Str(<<"q", "?">>), Str(<<"b", "?">>)>>, <<JSNull>>}
      \* plan = [{ id: 's1', type: 'narration' }]
      TurnPlan == createPlan(ParsedOk(<<RawStep("s1", "narration", <<>>)>>))
      \* the Blocks the generation service returns for s1
      TurnBlocks ==
        {[kind |-> "object", block_id |-> "s1", type |-> "narration", content |-> c,
          socratic |-> q, choices |-> <<>>, error |-> FALSE] :
           c \in TurnContents, q \in TurnQuestions}
  IN /\ K0 \notin DOMAIN sessions
     /\ \E b \in TurnBlocks :
          LET r == startSessionResult(K0, TurnPlan, "fail", "fail", "fail",
                                      [kind |-> "value", v |-> b])
          IN /\ sessions' = IF r.stored THEN (K0 :> r.st) ELSE sessions
             /\ ret' = r.ret
     /\ UNCHANGED <<now, calls, orphans>>

TurnNext ==
  \/ TurnStart
  \/ NextTurn(K0, NoSnaps) /\ UNCHANGED <<calls, orphans>>
  \/ EndSession(K0) /\ UNCHANGED <<calls, orphans>>

TurnSpec == Init /\ [][TurnNext]_vars

NumDigits == {"1", "2"}

\* the fence of a code block; the backquote character is written ~
Fence3 == <<"~", "~", "~">>

StartsWithAt(s, i, pat) ==
  /\ i >= 1 /\ i + Len(pat) - 1 <= Len(s)
  /\ SubSeq(s, i, i + Len(pat) - 1) = pat

\* first position from i on that holds no white space (\s*)
RECURSIVE SkipWs(_, _)
SkipWs(s, i) == IF i <= Len(s) /\ IsWs(s[i]) THEN SkipWs(s, i + 1) ELSE i

\* first position from i on that holds character c, Len(s) + 1 if none
RECURSIVE IndexOfFrom(_, _, _)
IndexOfFrom(s, c, i) ==
  IF i > Len(s) THEN Len(s) + 1
  ELSE IF s[i] = c THEN i ELSE IndexOfFrom(s, c, i + 1)

\* first position from i on where pat starts, Len(s) + 1 if none
RECURSIVE FindFrom(_, _, _)
FindFrom(s, pat, i) ==
  IF i > Len(s) THEN Len(s) + 1
  ELSE IF StartsWithAt(s, i, pat) THEN i ELSE FindFrom(s, pat, i + 1)

(* JSON values: t is "num", "str", "arr" or "obj", s the digits or the
   characters, items the elements or the member values, keys the member
   names *)
JVal(t, s, keys, items) == [t |-> t, s |-> s, keys |-> keys, items |-> items]

\* JSON.parse has thrown: no value
ParseFail == [ok |-> FALSE, v |-> JVal("none", <<>>, <<>>, <<>>), pos |-> 0]

\* JSON.parse(text): ok is FALSE when it throws
JSONParse(text) ==
  LET RECURSIVE DigitsEnd(_, _), PValue(_, _), PElements(_, _, _), PMembers(_, _, _, _)
      \* end of the run of digits that starts at i
      DigitsEnd(s, i) ==
        IF i <= Len(s) /\ s[i] \in NumDigits THEN DigitsEnd(s, i + 1) ELSE i
      \* a string literal that starts at the quote at i
      PString(s, i) ==
        LET j == IndexOfFrom(s, "\"", i + 1)
        IN IF j > Len(s) \/ \E k \in (i + 1)..(j - 1) : s[k] = "\n"
           THEN ParseFail
           ELSE [ok |-> TRUE, v |-> JVal("str", SubSeq(s, i + 1, j - 1), <<>>, <<>>),
                 pos |-> j + 1]
      \* the elements of an array from position i on, after the elements acc
      PElements(s, i, acc) ==
        LET r == PValue(s, i)
            j == SkipWs(s, r.pos)
        IN IF ~r.ok \/ j > Len(s) THEN ParseFail
           ELSE IF s[j] = "]"
           THEN [ok |-> TRUE, v |-> JVal("arr", <<>>, <<>>, Append(acc, r.v)), pos |-> j + 1]
           ELSE IF s[j] = "," THEN PElements(s, SkipWs(s, j + 1), Append(acc, r.v))
           ELSE ParseFail
      \* the members of an object from position i on
      PMembers(s, i, keys, acc) ==
        IF i > Len(s) \/ s[i] # "\"" THEN ParseFail
        ELSE LET k == PString(s, i)
                 c == SkipWs(s, k.pos)
             IN IF ~k.ok \/ c > Len(s) \/ s[c] # ":" THEN ParseFail
                ELSE LET r == PValue(s, SkipWs(s, c + 1))
                         j == SkipWs(s, r.pos)
                     IN IF ~r.ok \/ j > Len(s) THEN ParseFail
                        ELSE IF s[j] = "}"
                        THEN [ok |-> TRUE,
                              v |-> JVal("obj", <<>>, Append(keys, k.v.s), Append(acc, r.v)),
                              pos |-> j + 1]
                        ELSE IF s[j] = ","
                        THEN PMembers(s, SkipWs(s, j + 1), Append(keys, k.v.s),
                                      Append(acc, r.v))
                        ELSE ParseFail
      PValue(s, i) ==
        IF i > Len(s) THEN ParseFail
        ELSE IF s[i] = "\"" THEN PString(s, i)
        ELSE IF s[i] \in NumDigits
        THEN [ok |-> TRUE, v |-> JVal("num", SubSeq(s, i, DigitsEnd(s, i) - 1), <<>>, <<>>),
              pos |-> DigitsEnd(s, i)]
        ELSE IF s[i] = "["
        THEN LET j == SkipWs(s, i + 1)
             IN IF j <= Len(s) /\ s[j] = "]"
                THEN [ok |-> TRUE, v |-> JVal("arr", <<>>, <<>>, <<>>), pos |-> j + 1]
                ELSE PElements(s, j, <<>>)
        ELSE IF s[i] = "{"
        THEN LET j == SkipWs(s, i + 1)
             IN IF j <= Len(s) /\ s[j] = "}"
                THEN [ok |-> TRUE, v |-> JVal("obj", <<>>, <<>>, <<>>), pos |-> j + 1]
                ELSE PMembers(s, j, <<>>, <<>>)
        ELSE ParseFail
      r == PValue(text, SkipWs(text, 1))
  IN IF r.ok /\ SkipWs(text, r.pos) > Len(text) THEN r ELSE ParseFail

fixCommonJSONIssues(jsonStr) ==
  LET FenceJson == Fence3 \o <<"j", "s", "o", "n">>
      \* [a-zA-Z_] and [a-zA-Z0-9_], over the letters of the model
      IdentStart == {"a", "b", "j", "s", "o", "n", "x", "_"}
      RECURSIVE DropFenceOpen(_, _), DropLineComments(_, _), DropBlockComments(_, _),
                IdentEnd(_, _), QuoteKeys(_, _), QuoteValues(_, _),
                DropTrailingCommas(_, _, _), AddCommas(_, _, _, _), CountOf(_, _),
                Repeat(_, _)
      \* .replace(/~~~json\s*/g, '')
      DropFenceOpen(s, i) ==
        IF i > Len(s) THEN <<>>
        ELSE IF StartsWithAt(s, i, FenceJson)
        THEN DropFenceOpen(s, SkipWs(s, i + Len(FenceJson)))
        ELSE <<s[i]>> \o DropFenceOpen(s, i + 1)
      \* .replace(/~~~\s*$/g, '')
      DropFenceClose(s) ==
        LET at == {i \in 1..Len(s) : StartsWithAt(s, i, Fence3) /\ SkipWs(s, i + 3) > Len(s)}
        IN IF at = {} THEN s
           ELSE SubSeq(s, 1, (CHOOSE i \in at : \A j \in at : i <= j) - 1)
      \* .replace(/\/\/.*$/gm, '')
      DropLineComments(s, i) ==
        IF i > Len(s) THEN <<>>
        ELSE IF StartsWithAt(s, i, <<"/", "/">>)
        THEN DropLineComments(s, IndexOfFrom(s, "\n", i))
        ELSE <<s[i]>> \o DropLineComments(s, i + 1)
      \* .replace(/\/\*[\s\S]*?\*\//g, '')
      DropBlockComments(s, i) ==
        IF i > Len(s) THEN <<>>
        ELSE IF StartsWithAt(s, i, <<"/", "*">>) /\ FindFrom(s, <<"*", "/">>, i + 2) <= Len(s)
        THEN DropBlockComments(s, FindFrom(s, <<"*", "/">>, i + 2) + 2)
        ELSE <<s[i]>> \o DropBlockComments(s, i + 1)
      IdentEnd(s, i) ==
        IF i <= Len(s) /\ s[i] \in IdentStart \cup NumDigits THEN IdentEnd(s, i + 1) ELSE i
      \* .replace(/([,{]\s*)([a-zA-Z_][a-zA-Z0-9_]*)\s*:/g, '$1"$2":')
      QuoteKeys(s, i) ==
        IF i > Len(s) THEN <<>>
        ELSE LET j == SkipWs(s, i + 1)
                 k == IdentEnd(s, j)
                 m == SkipWs(s, k)
             IN IF /\ s[i] \in {",", "{"}
                   /\ j <= Len(s) /\ s[j] \in IdentStart
                   /\ m <= Len(s) /\ s[m] = ":"
                THEN SubSeq(s, i, j - 1) \o <<"\"">> \o SubSeq(s, j, k - 1) \o <<"\"", ":">>
                     \o QuoteKeys(s, m + 1)
                ELSE <<s[i]>> \o QuoteKeys(s, i + 1)
      \* .replace(/:\s*'([^']*?)'/g, ': "$1"')
      QuoteValues(s, i) ==
        IF i > Len(s) THEN <<>>
        ELSE LET j == SkipWs(s, i + 1)
                 k == IndexOfFrom(s, "'", j + 1)
             IN IF s[i] = ":" /\ j <= Len(s) /\ s[j] = "'" /\ k <= Len(s)
                THEN <<":", " ", "\"">> \o SubSeq(s, j + 1, k - 1) \o <<"\"">>
                     \o QuoteValues(s, k + 1)
                ELSE <<s[i]>> \o QuoteValues(s, i + 1)
      \* .replace(/,(\s*[}\]])/g, '$1'), closers = {"}", "]"};
      \* .replace(/,(\s*})/g, '$1') and .replace(/,(\s*])/g, '$1')
      DropTrailingCommas(s, i, closers) ==
        IF i > Len(s) THEN <<>>
        ELSE LET j == SkipWs(s, i + 1)
             IN IF s[i] = "," /\ j <= Len(s) /\ s[j] \in closers
                THEN SubSeq(s, i + 1, j) \o DropTrailingCommas(s, j + 1, closers)
                ELSE <<s[i]>> \o DropTrailingCommas(s, i + 1, closers)
      \* .replace(/"\s*\n\s*"/g, '",\n"'), .replace(/}\s*\n\s*{/g, '},\n{') and
      \* .replace(/]\s*\n\s*\[/g, '],\n[')
      AddCommas(s, i, close, open) ==
        IF i > Len(s) THEN <<>>
        ELSE LET j == SkipWs(s, i + 1)
             IN IF /\ s[i] = close /\ j <= Len(s) /\ s[j] = open
                   /\ \E k \in (i + 1)..(j - 1) : s[k] = "\n"
                THEN <<close, ",", "\n", open>> \o AddCommas(s, j + 1, close, open)
                ELSE <<s[i]>> \o AddCommas(s, i + 1, close, open)
      CountOf(s, c) ==
        IF s = <<>> THEN 0 ELSE (IF Head(s) = c THEN 1 ELSE 0) + CountOf(Tail(s), c)
      Repeat(c, n) == IF n <= 0 THEN <<>> ELSE <<c>> \o Repeat(c, n - 1)
      s1 == DropFenceClose(DropFenceOpen(jsonStr, 1))
      s2 == DropBlockComments(DropLineComments(s1, 1), 1)
      s3 == QuoteValues(QuoteKeys(s2, 1), 1)
      s4 == DropTrailingCommas(s3, 1, {"}", "]"})
      s5 == AddCommas(AddCommas(AddCommas(s4, 1, "\"", "\""), 1, "}", "{"), 1, "]", "[")
      s6 == DropTrailingCommas(DropTrailingCommas(s5, 1, {"}"}), 1, {"]"})
      \* the closing braces and brackets that are missing are appended
      s7 == s6 \o Repeat("}", CountOf(s6, "{") - CountOf(s6, "}"))
               \o Repeat("]", CountOf(s6, "[") - CountOf(s6, "]"))
  IN Trim(s7)

\* parseAIJSONResponse(response) for a string: ok is FALSE when it throws
\* 'No valid JSON found in AI response'
parseAIJSONResponse(response) ==
  LET RECURSIVE BalancedEnd(_, _, _, _, _), FirstOk(_)
      \* extractBalanced(text, openChar, closeChar): end of the balanced run
      \* that starts at the first openChar, 0 if there is none
      BalancedEnd(s, i, depth, open, close) ==
        IF i > Len(s) THEN 0
        ELSE LET d == IF s[i] = open THEN depth + 1
                      ELSE IF s[i] = close THEN depth - 1 ELSE depth
             IN IF d = 0 THEN i ELSE BalancedEnd(s, i + 1, d, open, close)
      \* extractBalanced, else the greedy match /\{[\s\S]*\}/ (from the first
      \* openChar to the last closeChar); <<>> when neither finds anything
      Extract(s, open, close) ==
        LET start == IndexOfFrom(s, open, 1)
            e == IF start > Len(s) THEN 0 ELSE BalancedEnd(s, start, 0, open, close)
            lasts == {k \in (start + 1)..Len(s) : s[k] = close}
        IN IF start > Len(s) THEN <<>>
           ELSE IF e # 0 THEN SubSeq(s, start, e)
           ELSE IF lasts # {} THEN SubSeq(s, start, CHOOSE k \in lasts : \A m \in lasts : m <= k)
           ELSE <<>>
      \* where the content starts after the fence at i: past (?:json)?\s*\n?
      Body(s, i) ==
        SkipWs(s, IF StartsWithAt(s, i, Fence3 \o <<"j", "s", "o", "n">>) THEN i + 7 ELSE i + 3)
      \* response.match(/~~~(?:json)?\s*\n?([\s\S]*?)\n?~~~/): found, and group 1
      FenceMatch(s) ==
        LET opens == {i \in 1..Len(s) :
                        /\ StartsWithAt(s, i, Fence3)
                        /\ FindFrom(s, Fence3, Body(s, i)) <= Len(s)}
            i0 == CHOOSE i \in opens : \A j \in opens : i <= j
        IN IF opens = {} THEN [found |-> FALSE, group |-> <<>>]
           ELSE [found |-> TRUE,
                 group |-> SubSeq(s, Body(s, i0), FindFrom(s, Fence3, Body(s, i0)) - 1)]
      \* the attempts after JSON.parse(response) has thrown, in their order:
      \* code fence, object, array
      Attempts ==
        (IF FenceMatch(response).found
         THEN <<JSONParse(fixCommonJSONIssues(Trim(FenceMatch(response).group)))>> ELSE <<>>)
        \o (IF Extract(response, "{", "}") # <<>>
            THEN <<JSONParse(fixCommonJSONIssues(Extract(response, "{", "}")))>> ELSE <<>>)
        \o (IF Extract(response, "[", "]") # <<>>
            THEN <<JSONParse(fixCommonJSONIssues(Extract(response, "[", "]")))>> ELSE <<>>)
      FirstOk(rs) ==
        IF rs = <<>> THEN ParseFail ELSE IF Head(rs).ok THEN Head(rs) ELSE FirstOk(Tail(rs))
  IN IF JSONParse(response).ok THEN JSONParse(response) ELSE FirstOk(Attempts)

(***************************************************************************)
(* The normalizer called on its own                                        *)
(***************************************************************************)
\* the text of JSON value v. o.single: string values in single quotes;
\* o.unq: member names without quotes; o.trail: a comma after the last
\* element or member; o.sp: a space after every comma; all FALSE:
\* JSON.stringify(v)
RECURSIVE Serialize(_, _)
Serialize(v, o) ==
  LET RECURSIVE Join(_, _)
      Join(texts, sep) ==
        IF texts = <<>> THEN <<>>
        ELSE IF Len(texts) = 1 THEN texts[1]
        ELSE texts[1] \o sep \o Join(Tail(texts), sep)
      q == IF o.single THEN <<"'">> ELSE <<"\"">>
      sep == IF o.sp THEN <<",", " ">> ELSE <<",">>
      last == IF o.trail /\ Len(v.items) > 0 THEN <<",">> ELSE <<>>
  IN CASE v.t = "num" -> v.s
       [] v.t = "str" -> q \o v.s \o q
       [] v.t = "arr" ->
            <<"[">> \o Join([i \in 1..Len(v.items) |-> Serialize(v.items[i], o)], sep)
                    \o last \o <<"]">>
       [] OTHER ->
            <<"{">> \o Join([i \in 1..Len(v.items) |->
                               (IF o.unq THEN v.keys[i] ELSE <<"\"">> \o v.keys[i] \o <<"\"">>)
                               \o <<":">> \o Serialize(v.items[i], o)], sep)
                    \o last \o <<"}">>

\* the text of value v in decoration d
Decorate(v, d) ==
  LET WellFormed == [single |-> FALSE, unq |-> FALSE, trail |-> FALSE, sp |-> FALSE]
      FenceJson == Fence3 \o <<"j", "s", "o", "n">>
      Stringify == Serialize(v, WellFormed)
  IN CASE d = "plain" -> Stringify
       [] d = "fenced" -> FenceJson \o <<"\n">> \o Stringify \o <<"\n">> \o Fence3
       [] d = "fencedBare" -> Fence3 \o <<"\n">> \o Stringify \o <<"\n">> \o Fence3
       [] d = "proseFenced" ->
            <<"x", " ">> \o FenceJson \o <<"\n">> \o Stringify \o <<"\n">> \o Fence3
       [] d = "trailingCommas" -> Serialize(v, [WellFormed EXCEPT !.trail = TRUE])
       [] d = "singleQuoted" -> Serialize(v, [WellFormed EXCEPT !.single = TRUE])
       [] d = "unquotedKeys" -> Serialize(v, [WellFormed EXCEPT !.unq = TRUE])
       [] OTHER -> Serialize(v, [WellFormed EXCEPT !.unq = TRUE, !.trail = TRUE, !.sp = TRUE])

\* the JSON values of NormSpec
NormValues ==
  LET One == JVal("num", <<"1">>, <<>>, <<>>)
      Two == JVal("num", <<"2">>, <<>>, <<>>)
      KeyA == <<"a">>
      KeyB == <<"b">>
      JStr(chars) == JVal("str", chars, <<>>, <<>>)
      JArr(items) == JVal("arr", <<>>, <<>>, items)
      JObj(keys, items) == JVal("obj", <<>>, keys, items)
  IN {One, JStr(KeyA),
      JArr(<<>>), JArr(<<One>>), JArr(<<One, Two>>), JArr(<<JStr(KeyA)>>),
      JArr(<<JStr(KeyA), JStr(KeyB)>>),
      JObj(<<>>, <<>>), JObj(<<KeyA>>, <<One>>), JObj(<<KeyA, KeyB>>, <<One, Two>>),
      JObj(<<KeyA>>, <<JStr(KeyB)>>), JObj(<<KeyA>>, <<JArr(<<One, Two>>)>>),
      JObj(<<KeyA>>, <<JObj(<<KeyB>>, <<One>>)>>),
      JArr(<<JObj(<<KeyA>>, <<One>>)>>),
      JArr(<<JObj(<<KeyA>>, <<One>>), JObj(<<KeyB>>, <<Two>>)>>),
      JObj(<<KeyA>>, <<JStr(<<"/", "/", "x">>)>>)}

\* parseAIJSONResponse is called on the text of value v in decoration d
Normalize ==
  /\ \E v \in NormValues,
        d \in {"plain", "fenced", "fencedBare", "proseFenced", "trailingCommas",
               "singleQuoted", "unquotedKeys", "scenarioC"} :
       LET r == parseAIJSONResponse(Decorate(v, d))
       IN ret' = [NoRet EXCEPT !.op = "parseAIJSONResponse",
                               !.arg = [v |-> v, d |-> d, text |-> Decorate(v, d)],
                               !.raised = IF r.ok THEN "none" ELSE "ParseFailure",
                               !.payload = r.v]
  /\ UNCHANGED <<sessions, now, calls, orphans>>

NormSpec == Init /\ [][Normalize]_vars

\* C28: normalization is value-preserving: the text JSON.stringify(V)
\* normalizes to V, and so do the texts that wrap it in a fenced code block
\* or write it with trailing commas, single-quoted strings or unquoted keys
\* ("{a:1, b:2,}" normalizes to {"a":1,"b":2}).
C28_NormalizeValuePreserving ==
  ret.op = "parseAIJSONResponse" => (ret.raised = "none" /\ ret.payload = ret.arg.v)

(***************************************************************************)
(* Turns and payloads                                                      *)
(***************************************************************************)
\* C31: every memoized Turn has exactly one of say and question set:
\* narration turns have say set and question null, socratic turns have
\* question set and say null, for every Block content and every
\* socratic_questions list the generation service can return.
C31_SayXorQuestion ==
  \A k \in DOMAIN sessions : \A i \in DOMAIN sessions[k].turnsByBlock :
    \A j \in 1..Len(sessions[k].turnsByBlock[i]) :
      LET turn == sessions[k].turnsByBlock[i][j]
      IN /\ (turn.say # JSNull) # (turn.question # JSNull)
         /\ turn.type = "narration" => (turn.say # JSNull /\ turn.question = JSNull)
         /\ turn.type = "socratic" => (turn.question # JSNull /\ turn.say = JSNull)

\* C32: a payload with awaitingChoice = true is returned only by nextTurn,
\* and only when the current block is a choice block and turnIndex is at
\* that block's last turn; every turn payload carries done = false and
\* carries choices exactly when the current block is a choice block.
C32_AwaitingChoiceOnlyAtChoiceEnd ==
  /\ ret.awaitingChoice
     => /\ ret.op = "nextTurn" /\ ret.payload.has
        /\ ret.key \in DOMAIN sessions
        /\ LET st == sessions[ret.key]
           IN /\ OnChoice(st)
              /\ st.turnIndex = Len(TurnsAt(st, st.blockIndex)) - 1
              /\ ret.payload.block = st.blockIndex /\ ret.payload.turn = st.turnIndex
  /\ ret.payload.has
     => /\ ret.done = "false"
        /\ ret.key \in DOMAIN sessions
        /\ LET st == sessions[ret.key]
           IN /\ ret.payload.choicesDefined = OnChoice(st)
              /\ OnChoice(st) => ret.payload.choices = CurrentBlock(st).choices

\* nextTurn has answered awaitingChoice on the second of the two turns of a
\* choice block
C32_Witness ==
  /\ ret.op = "nextTurn" /\ ret.awaitingChoice /\ Present
  /\ Len(TurnsAt(Sess, Sess.blockIndex)) = 2 /\ Sess.turnIndex = 1
  /\ ret.payload.choices # <<>>

(***************************************************************************)
(* Sessions over a plan without choice steps                               *)
(***************************************************************************)
\* startSession for the plan s1 (narration), s2 (quiz), s3 (reflection)
LinearStart ==
  LET plan == createPlan(ParsedOk(<<RawStep("s1", "narration", <<>>),
                                    RawStep("s2", "quiz", <<>>),
                                    RawStep("s3", "reflection", <<>>)>>))
  IN /\ K0 \notin DOMAIN sessions
     /\ \E out \in GenOutcomes(plan, 0) :
          LET r == startSessionResult(K0, plan, "fail", "fail", "fail", out)
          IN /\ sessions' = IF r.stored THEN (K0 :> r.st) ELSE sessions
             /\ ret' = r.ret
     /\ UNCHANGED <<now, calls, orphans>>

LinearNext ==
  \/ LinearStart
  \/ NextTurn(K0, NoSnaps) /\ UNCHANGED <<calls, orphans>>
  \/ EndSession(K0) /\ UNCHANGED <<calls, orphans>>

LinearSpec == Init /\ [][LinearNext]_vars

\* C33: in a session whose plan contains no choice step, under sequential
\* nextTurn calls the k-th Block is generated from plan step k, and when
\* nextTurn answers done every plan step has been materialized: none is
\* repeated and none is skipped, whatever block_id the Blocks carry.
C33_StepsInPlanOrder ==
  \A k \in DOMAIN sessions :
    LET st == sessions[k]
    IN (\A i \in 1..Len(st.plan) : StepType(st.plan[i]) # "choice")
       => /\ \A i \in 1..Len(st.blocks) : st.blockSteps[i] = i - 1
          /\ (ret.op = "nextTurn" /\ ret.key = k /\ ret.done = "true")
             => Len(st.blocks) = Len(st.plan)

(***************************************************************************)
(* The cursor of a session under a sequential caller                       *)
(***************************************************************************)
\* C34: under a sequential caller every stored session has
\* blockIndex = len(blocks) - 1, so the nextTurn branch that moves to an
\* already generated block at blockIndex + 1 is never taken.
C34_CursorOnLastBlock ==
  \A k \in DOMAIN sessions :
    /\ sessions[k].blockIndex = Len(sessions[k].blocks) - 1
    /\ ~HasNextGenerated(sessions[k])

\* nextTurn has generated the second Block of a session and the session is
\* at the last turn of it
C34_Witness ==
  /\ Present /\ ret.op = "nextTurn" /\ ret.payload.has
  /\ Len(Sess.blocks) = 2 /\ Sess.blockIndex = 1
  /\ AtLastTurn(Sess) /\ ~OnChoice(Sess)

\* C35: in every reachable state of a stored session turns are memoized
\* for the current blockIndex and turnIndex is a valid index into them,
\* so the placeholder turn is never emitted in a payload.
C35_TurnIndexValid ==
  /\ \A k \in DOMAIN sessions :
       LET st == sessions[k]
       IN /\ st.blockIndex \in DOMAIN st.turnsByBlock
          /\ Has(TurnsAt(st, st.blockIndex), st.turnIndex)
  /\ ret.payload.has => ret.payload.say # Str(<<"C">>)

\* C36: submitResponse on a block that is not a choice block leaves
\* blockIndex, turnIndex, blocks, the memoized turns, the plan and the
\* cached snapshots as they are; the only session field it changes is
\* lastAssessment, which takes the assessment it returns.
C36_SubmitOnlySetsAssessment ==
  [][(Present /\ ~OnChoice(Sess) /\ ret'.op = "submitResponse")
     => /\ K0 \in DOMAIN sessions'
        /\ [sessions'[K0] EXCEPT !.lastAssessment = Sess.lastAssessment] = Sess
        /\ ret'.raised = "none" => sessions'[K0].lastAssessment = ret'.assessment]_vars

\* submitResponse has answered on the second turn of a second Block, after
\* an assessment that resolved
C36_Witness ==
  /\ Present /\ ret.op = "submitResponse" /\ ret.raised = "none" /\ ~ret.branched
  /\ ~OnChoice(Sess) /\ Sess.lastAssessment = "a1" /\ ret.assessment = "a1"
  /\ Sess.blockIndex = 1 /\ Sess.turnIndex = 1


(***************************************************************************)
(* Sessions ended or started while calls are suspended                     *)
(***************************************************************************)
\* C37: if endSession runs while a nextTurn or submitResponse on the same
\* key is suspended on an external call, the suspended call goes on with the
\* object it holds: none of its steps writes the store (the key stays
\* absent), it returns without raising, and a call on the absent key that
\* begins later raises NotFound.
C37_EndedSessionStaysEnded ==
  [][/\ \A p \in Slots :
          (/\ Holds(calls[p]) /\ calls[p].ref # 0
           /\ AKey(calls[p]) \notin DOMAIN sessions
           /\ calls'[p] # calls[p])
          => /\ sessions' = sessions
             /\ calls'[p].pc = "idle"
                => (ret'.key = AKey(calls[p]) /\ ret'.raised = "none")
     /\ (/\ calls' = calls /\ ret' # ret
         /\ ret'.op \in {"nextTurn", "submitResponse"}
         /\ ret'.key \notin DOMAIN sessions)
        => ret'.raised = "NotFound"]_vars


\* C38: a session is visible in the store only after startSession has
\* planned, generated the first Block and memoized its turns: a nextTurn,
\* submitResponse or getState on the key of a startSession that is still
\* suspended fails with NotFound, and every stored session has a first Block
\* and the turns of block 0.
C38_VisibleOnlyWhenComplete ==
  [][LET \* the keys of the startSession calls that stay suspended in the step
         Starting == {AKey(calls[p]) : p \in {q \in Slots :
                        /\ calls[q].op = "startSession" /\ calls[q].pc = "first"
                        /\ calls'[q] = calls[q]}}
     IN /\ \A k \in DOMAIN sessions' :
             /\ Len(sessions'[k].blocks) >= 1
             /\ 0 \in DOMAIN sessions'[k].turnsByBlock
             /\ Len(sessions'[k].turnsByBlock[0]) >= 1
        \* a call on such a key that returns at once
        /\ (/\ calls' = calls /\ ret' # ret /\ ret'.key \in Starting
            /\ ret'.op \in {"nextTurn", "submitResponse", "getState"})
           => ret'.raised = "NotFound"
        \* a call on such a key that reaches an await has found a session
        /\ \A q \in Slots :
             (calls[q].pc = "idle" /\ Holds(calls'[q])) => AKey(calls'[q]) \notin Starting]_vars


\* C39: each startSession call stores its session under a key that no
\* stored session has, so starting a session never replaces a live session
\* of the same user, also when two sessions of one user are started at the
\* same clock reading.
C39_StartUsesFreshKey ==
  [][\A p \in Slots :
       (/\ calls[p].op = "startSession" /\ calls[p].pc = "first"
        /\ calls'[p].pc = "idle" /\ ret'.raised = "none")
       => /\ AKey(calls[p]) \notin DOMAIN sessions
          /\ \A k \in DOMAIN sessions : k \in DOMAIN sessions' /\ sessions'[k] = sessions[k]]_vars


(***************************************************************************)
(* Refreshes of the snapshots whose three calls settle independently       *)
(***************************************************************************)
\* the outcomes of the three snapshot calls of a block boundary: each call
\* rejects or resolves to "v2", independently of the other two
BoundarySnaps == {"fail", "v2"} \X {"fail", "v2"} \X {"fail", "v2"}

\* startSession for the plan s1 (choice: A to s2, B to s3), s2 (narration),
\* s3 (quiz); its snapshot calls reject or resolve to "v1" together
RefreshStart ==
  LET plan == createPlan(ParsedOk(<<RawStep("s1", "choice", <<[text |-> "A", next |-> "s2"],
                                                              [text |-> "B", next |-> "s3"]>>),
                                    RawStep("s2", "narration", <<>>),
                                    RawStep("s3", "quiz", <<>>)>>))
  IN /\ K0 \notin DOMAIN sessions
     /\ \E sn \in SeqSnaps, out \in GenOutcomes(plan, 0) :
          LET r == startSessionResult(K0, plan, sn[1], sn[2], sn[3], out)
          IN /\ sessions' = IF r.stored THEN (K0 :> r.st) ELSE sessions
             /\ ret' = r.ret
     /\ UNCHANGED <<now, calls, orphans>>

\* nextTurn; the generation call of a boundary fails (the fallback Block) or
\* answers JSON null
RefreshNextTurn ==
  /\ Present
  /\ LET target == nextTurnTarget(Sess)
     IN /\ target # -1 => Len(Sess.blocks) < MaxBlocks
        /\ \E sn \in (IF target = -1 THEN NoSnaps ELSE BoundarySnaps),
              out \in AsyncGenOutcomes(Sess.plan, target) :
             LET r == nextTurnResult(K0, Sess, sn[1], sn[2], sn[3], out)
             IN /\ sessions' = Store(K0, r.st)
                /\ ret' = r.ret
  /\ UNCHANGED <<now, calls, orphans>>

\* submitResponse on the choice block, with a selection by index
RefreshSubmit ==
  /\ Present /\ OnChoice(Sess)
  /\ \E response \in {r \in Responses : r.kind = "object" /\ r.choiceIndex \in {0, 1}
                                         /\ r.choiceText = Null} :
       LET target == submitTarget(Sess, response)
       IN /\ target # -1 => Len(Sess.blocks) < MaxBlocks
          /\ \E sn \in (IF target = -1 THEN NoSnaps ELSE BoundarySnaps),
                out \in AsyncGenOutcomes(Sess.plan, target) :
               LET r == submitResponseResult(K0, Sess, response, "a1", sn[1], sn[2], sn[3],
                                             out, "fail", "fail")
               IN /\ sessions' = Store(K0, r.st)
                  /\ ret' = [r.ret EXCEPT !.arg = response]
  /\ UNCHANGED <<now, calls, orphans>>

RefreshNext ==
  \/ RefreshStart
  \/ RefreshNextTurn
  \/ RefreshSubmit
  \/ EndSession(K0) /\ UNCHANGED <<calls, orphans>>

RefreshSpec == Init /\ [][RefreshNext]_vars

\* C40: when a personalization, enhanced-context or conversation-summary
\* refresh fails at a block boundary (the generation of nextTurn, the
\* branching of submitResponse), that snapshot keeps its previous value,
\* the other snapshots take the values of their own calls, and the Block is
\* generated and pushed all the same.
C40_FailedRefreshKeepsSnapshot ==
  [][Present =>
       LET st == Sess
           \* the plan positions a call can generate a Block for in st
           Targets == ({nextTurnTarget(st)}
                       \cup {submitTarget(st, response) : response \in Responses}) \ {-1}
           \* st2 is st after a refresh with the outcomes sn
           Refreshed(st2, sn) ==
             /\ st2.personalization = (IF sn[1] = "fail" THEN st.personalization ELSE sn[1])
             /\ st2.enhancedContext = (IF sn[2] = "fail" THEN st.enhancedContext ELSE sn[2])
             /\ st2.conversationSummary
                  = (IF sn[3] = "fail" THEN st.conversationSummary ELSE sn[3])
           \* the Block of the outcome out for plan position target is the
           \* last of st2
           Pushed(st2, target, out) ==
             /\ Len(st2.blocks) = Len(st.blocks) + 1
             /\ st2.blocks[Len(st2.blocks)] = generateContentForStep(Nth(st.plan, target), out)
       IN \* whatever the three calls of a boundary do
          /\ \A target \in Targets, sn \in BoundarySnaps :
               \A out \in GenOutcomes(st.plan, target) :
                 LET st2 == GenerateAndAdvance(st, target, sn[1], sn[2], sn[3], out)
                 IN Refreshed(st2, sn) /\ Pushed(st2, target, out)
          \* and the step of nextTurn or submitResponse that pushes a Block
          \* leaves the session of one of these boundaries
          /\ (/\ K0 \in DOMAIN sessions' /\ ret'.op \in {"nextTurn", "submitResponse"}
              /\ Len(sessions'[K0].blocks) > Len(st.blocks))
             => \E target \in Targets, sn \in BoundarySnaps :
                  \E out \in GenOutcomes(st.plan, target) :
                    /\ Refreshed(sessions'[K0], sn)
                    /\ Pushed(sessions'[K0], target, out)]_vars

\* the personalization call has failed at the branching of submitResponse
\* and at the generation of nextTurn, while the other two calls have
\* resolved at a boundary: the session has its three Blocks, the
\* personalization of startSession and the other snapshots of a refresh
C40_Witness ==
  /\ Present /\ Len(Sess.blocks) = 3
  /\ ret.op = "nextTurn" /\ ret.payload.has
  /\ Sess.conversationSummary = "v2"
  /\ Sess.personalization = "v1"
  /\ Sess.enhancedContext = "v2"

====
